---------------------------- MODULE Spec2Model ----------------------------
(***************************************************************************)
(* Model of the competitor-site crawler (competitor_analyzer.py) and of    *)
(* the consumer of its report (ai_service.generate_competitor_analysis).   *)
(*                                                                         *)
(* Strings are sequences of one-character strings, so that lower(),        *)
(* substring tests, urlparse() and urljoin() are computed, not assumed.    *)
(* Page text is kept run-length encoded (a sequence of <<char, count>>),   *)
(* which lets pages be longer than the 1500 / 3000 character cuts without  *)
(* storing every character.                                                *)
(***************************************************************************)
EXTENDS Integers, Sequences, FiniteSets, TLC

(* ------------------------------ bounds -------------------------------- *)
\* Largest max_depth / max_pages argument the model passes to the crawl.
MaxDepthBound == 2
MaxPagesBound == 4

\* the number of chat_with_context calls made on a session
ChatCallsBound == 4

\* max_depth and max_pages of the longer of two interleaved calls
PairDepthBound == 1
PairPagesBound == 3

\* max_depth and max_pages of the crawls that start from a seed with an
\* exclusion term
SeedDepthBound == 1
SeedPagesBound == 3

\* the number of register_user and login_user calls made one at a time,
\* and the number made when two may run at a time
AuthCallsBound == 3
RaceCallsBound == 2

\* the number of calls of the session endpoints
EndpointCallsBound == 2

\* the number of words a keyword text is given after its fixed part, and the
\* number of times extract_keywords is applied to a text
KeywordWordsBound == 2
KeywordRunsBound == 2

(* ----------------------------- characters ------------------------------ *)
UpperLetters ==
    <<"A","B","C","D","E","F","G","H","I","J","K","L","M",
      "N","O","P","Q","R","S","T","U","V","W","X","Y","Z">>
LowerLetters ==
    <<"a","b","c","d","e","f","g","h","i","j","k","l","m",
      "n","o","p","q","r","s","t","u","v","w","x","y","z">>
Digits == <<"0","1","2","3","4","5","6","7","8","9">>

InSeq(c, s) == \E i \in 1..Len(s) : s[i] = c
IsUpper(c) == InSeq(c, UpperLetters)
IsLetter(c) == InSeq(c, UpperLetters) \/ InSeq(c, LowerLetters)
IsDigit(c) == InSeq(c, Digits)
\* \w of the regular expressions, on the ASCII alphabet
IsWordChar(c) == IsLetter(c) \/ IsDigit(c) \/ c = "_"
IsSpace(c) == c \in {" ", "\n", "\t"}
IsHexDigit(c) ==
    IsDigit(c) \/ c \in {"a","b","c","d","e","f","A","B","C","D","E","F"}

LowerChar(c) ==
    IF IsUpper(c)
    THEN LowerLetters[CHOOSE i \in 1..26 : UpperLetters[i] = c]
    ELSE c

\* str.lower()
Lower(s) == [i \in 1..Len(s) |-> LowerChar(s[i])]

\* `sub in s` on strings
Contains(s, sub) ==
    \E i \in 0..(Len(s) - Len(sub)) : SubSeq(s, i + 1, i + Len(sub)) = sub

\* any(term in s for term in terms)
ContainsAny(s, terms) == \E k \in 1..Len(terms) : Contains(s, terms[k])

\* index of the first character of s at or after `from` that is in chars,
\* Len(s) + 1 when there is none
FirstAt(s, chars, from) ==
    LET I == {i \in from..Len(s) : s[i] \in chars}
    IN  IF I = {} THEN Len(s) + 1 ELSE CHOOSE i \in I : \A j \in I : i <= j

\* index of the last "/" of s, 0 when there is none
LastSlash(s) ==
    LET I == {i \in 1..Len(s) : s[i] = "/"}
    IN  IF I = {} THEN 0 ELSE CHOOSE i \in I : \A j \in I : j <= i

Range(s) == {s[i] : i \in 1..Len(s)}

\* The recursive operators below split their argument in halves, which
\* keeps the depth of the recursion logarithmic in its length.
LeftHalf(s) == SubSeq(s, 1, Len(s) \div 2)
RightHalf(s) == SubSeq(s, (Len(s) \div 2) + 1, Len(s))

\* list(dict.fromkeys(s)): the elements of s without repetition, in the
\* order of their first occurrence
RECURSIVE Distinct(_)
Distinct(s) ==
    IF Len(s) <= 1 THEN s
    ELSE LET l == Distinct(LeftHalf(s))
             r == Distinct(RightHalf(s))
             seen == Range(l)
         IN  l \o SelectSeq(r, LAMBDA x : x \notin seen)

\* the sequence s with every element computed
Tabulate(s) == SubSeq(s, 1, Len(s))

\* s[:n]
Take(s, n) == SubSeq(s, 1, IF n < Len(s) THEN n ELSE Len(s))

(* ------------------------------- URLs ---------------------------------- *)
\* urllib.parse: scheme, netloc and the rest of a URL.  The URLs of the
\* model carry no query and no fragment, so the rest is the path.
UrlSplit(url) ==
    LET i == FirstAt(url, {":"}, 1)
        hasScheme ==
            /\ i > 1
            /\ i <= Len(url)
            /\ IsLetter(url[1])
            /\ \A k \in 1..(i - 1) :
                  IsLetter(url[k]) \/ IsDigit(url[k]) \/ url[k] \in {"+", "-", "."}
        scheme == IF hasScheme THEN Lower(SubSeq(url, 1, i - 1)) ELSE <<>>
        rest == IF hasScheme THEN SubSeq(url, i + 1, Len(url)) ELSE url
        hasNet == Len(rest) >= 2 /\ rest[1] = "/" /\ rest[2] = "/"
        j == FirstAt(rest, {"/", "?", "#"}, 3)
    IN  [scheme |-> scheme,
         netloc |-> IF hasNet THEN SubSeq(rest, 3, j - 1) ELSE <<>>,
         path   |-> IF hasNet THEN SubSeq(rest, j, Len(rest)) ELSE rest]

\* urlparse(url).netloc
Netloc(url) == UrlSplit(url).netloc

\* urlsplit's check of the netloc: a "[" without a "]" or a "]" without a
\* "[" raises ValueError("Invalid IPv6 URL")
UrlError(url) ==
    LET n == Range(Netloc(url))
    IN  ("[" \in n /\ "]" \notin n) \/ ("]" \in n /\ "[" \notin n)

\* urlunparse of (scheme, netloc, path)
UrlUnsplit(scheme, netloc, path) ==
    LET p == IF netloc # <<>> /\ path # <<>> /\ path[1] # "/"
             THEN <<"/">> \o path ELSE path
        withNet == IF netloc # <<>> THEN <<"/", "/">> \o netloc \o p ELSE p
    IN  IF scheme # <<>> THEN scheme \o <<":">> \o withNet ELSE withNet

\* urllib.parse.uses_relative, as far as the model's URLs go
UsesRelative == { <<>>, <<"h","t","t","p">>, <<"h","t","t","p","s">> }

\* urljoin(base, href), for hrefs without query, fragment, "." and ".."
\* segments and without empty path segments
UrlJoin(base, href) ==
    LET b == UrlSplit(base)
        h == UrlSplit(href)
        hscheme == IF h.scheme = <<>> THEN b.scheme ELSE h.scheme
        cut == LastSlash(b.path)
        merged == IF h.path[1] = "/" THEN h.path
                  ELSE IF cut = 0 THEN <<"/">> \o h.path
                  ELSE SubSeq(b.path, 1, cut) \o h.path
    IN  IF base = <<>> THEN href
        ELSE IF href = <<>> THEN base
        ELSE IF hscheme # b.scheme \/ hscheme \notin UsesRelative THEN href
        ELSE IF h.netloc # <<>> THEN UrlUnsplit(hscheme, h.netloc, h.path)
        ELSE IF h.path = <<>> THEN UrlUnsplit(hscheme, b.netloc, b.path)
        ELSE UrlUnsplit(hscheme, b.netloc, merged)

\* urljoin(base, href) parses both once neither is empty, and raises what
\* the parse raises
UrlJoinError(base, href) ==
    base # <<>> /\ href # <<>> /\ (UrlError(base) \/ UrlError(href))

\* the URLs requests.get() sends a request for; for the others it raises
\* MissingSchema, InvalidSchema or InvalidURL before any request
CanRequest(url) ==
    /\ UrlSplit(url).scheme \in {<<"h","t","t","p">>, <<"h","t","t","p","s">>}
    /\ Netloc(url) # <<>>
    /\ ~UrlError(url)

(* ------------------------- run-length text ---------------------------- *)
\* A text is a sequence of runs <<c, n>>, n >= 1, no two neighbouring runs
\* of the same character: "aab" is << <<"a",2>>, <<"b",1>> >>.

\* a + b on texts
TCat(a, b) ==
    IF a = <<>> THEN b
    ELSE IF b = <<>> THEN a
    ELSE IF a[Len(a)][1] = b[1][1]
         THEN SubSeq(a, 1, Len(a) - 1)
                \o << <<b[1][1], a[Len(a)][2] + b[1][2]>> >> \o Tail(b)
         ELSE a \o b

RECURSIVE TNorm(_)
TNorm(t) ==
    IF Len(t) <= 1 THEN t ELSE TCat(TNorm(LeftHalf(t)), TNorm(RightHalf(t)))

\* the text of a string
Runs(s) == TNorm([i \in 1..Len(s) |-> <<s[i], 1>>])

\* len(t)
RECURSIVE TLen(_)
TLen(t) ==
    IF t = <<>> THEN 0
    ELSE IF Len(t) = 1 THEN t[1][2]
    ELSE TLen(LeftHalf(t)) + TLen(RightHalf(t))

\* t[:n]
RECURSIVE TTake(_, _)
TTake(t, n) ==
    IF t = <<>> \/ n <= 0 THEN <<>>
    ELSE IF Len(t) = 1
         THEN << <<t[1][1], IF t[1][2] < n THEN t[1][2] ELSE n>> >>
    ELSE LET l == LeftHalf(t)
             k == TLen(l)
         IN  IF k >= n THEN TTake(l, n) ELSE l \o TTake(RightHalf(t), n - k)

\* t.lower()
TLower(t) == TNorm([i \in 1..Len(t) |-> <<LowerChar(t[i][1]), t[i][2]>>])

\* t.strip()
TStrip(t) ==
    LET I == {i \in 1..Len(t) : ~IsSpace(t[i][1])}
    IN  IF I = {} THEN <<>>
        ELSE SubSeq(t, CHOOSE i \in I : \A j \in I : i <= j,
                       CHOOSE i \in I : \A j \in I : j <= i)

\* the string of a text, every run cut to at most `most` characters
RECURSIVE Expand(_, _)
Expand(t, most) ==
    IF t = <<>> THEN <<>>
    ELSE IF Len(t) = 1
         THEN [i \in 1..(IF t[1][2] < most THEN t[1][2] ELSE most) |-> t[1][1]]
    ELSE Expand(LeftHalf(t), most) \o Expand(RightHalf(t), most)

\* re.sub(r'\s+', ' ', text)
RECURSIVE CollapseSpace(_)
CollapseSpace(t) ==
    IF t = <<>> THEN <<>>
    ELSE IF Len(t) = 1 THEN (IF IsSpace(t[1][1]) THEN << <<" ", 1>> >> ELSE t)
    ELSE LET l == CollapseSpace(LeftHalf(t))
             r == CollapseSpace(RightHalf(t))
         IN  IF l[Len(l)][1] = " " /\ r[1][1] = " " THEN l \o Tail(r) ELSE l \o r

\* sep.join(texts)
RECURSIVE TJoin(_, _)
TJoin(texts, sep) ==
    IF texts = <<>> THEN <<>>
    ELSE IF Len(texts) = 1 THEN texts[1]
    ELSE TCat(TCat(TJoin(LeftHalf(texts), sep), sep),
              TJoin(RightHalf(texts), sep))


(* ---------------------------- vocabularies ---------------------------- *)
\* the exclusion vocabulary of the enqueue filter
SkipTerms ==
    << <<"l","o","g","i","n">>,
       <<"s","i","g","n","u","p">>,
       <<"p","r","i","v","a","c","y">>,
       <<"t","e","r","m","s">>,
       <<"b","l","o","g">>,
       <<"c","a","r","e","e","r","s">> >>

\* the path hints of detect_product_links
ProductHints ==
    << <<"p","r","o","d","u","c","t">>,
       <<"s","o","l","u","t","i","o","n","s">>,
       <<"s","e","r","v","i","c","e","s">>,
       <<"f","e","a","t","u","r","e","s">>,
       <<"p","l","a","t","f","o","r","m">>,
       <<"p","r","i","c","i","n","g">> >>

\* the phrase vocabulary of detect_ctas
CtaPhrases ==
    << <<"g","e","t"," ","s","t","a","r","t","e","d">>,
       <<"t","r","y">>,
       <<"s","i","g","n"," ","u","p">>,
       <<"b","o","o","k"," ","d","e","m","o">>,
       <<"c","o","n","t","a","c","t"," ","s","a","l","e","s">>,
       <<"l","e","a","r","n"," ","m","o","r","e">>,
       <<"s","t","a","r","t"," ","f","r","e","e">> >>

\* the stop words of extract_keywords
StopWords ==
    << <<"a","b","o","u","t">>,
       <<"t","h","e","i","r">>,
       <<"w","i","t","h">>,
       <<"f","r","o","m">>,
       <<"t","h","i","s">>,
       <<"t","h","a","t">>,
       <<"h","a","v","e">>,
       <<"y","o","u","r">>,
       <<"m","o","r","e">>,
       <<"t","h","e","y">>,
       <<"w","i","l","l">>,
       <<"w","h","a","t">>,
       <<"w","h","e","n">>,
       <<"w","h","e","r","e">>,
       <<"w","h","i","c","h">>,
       <<"t","h","e","m">>,
       <<"p","r","i","v","a","c","y">>,
       <<"t","e","r","m","s">>,
       <<"c","o","o","k","i","e">>,
       <<"c","o","n","t","a","c","t">>,
       <<"l","o","g","i","n">>,
       <<"s","i","g","n","u","p">> >>

(* --------------------- program constants (caps) ------------------------ *)
PageTextCap == 1500
PageHeadingCap == 5
PageColorCap == 15
PageCtaCap == 10
PageProductCap == 10
KeywordCap == 20
MinWordLen == 4
HeadingCap == 15
ColorCap == 8
CtaCap == 10
ProductCap == 10
TextSampleCap == 3000
HistoryCap == 4
PromptHistoryCap == 10

(* ----------------------------- extractors ------------------------------ *)
\* The characters of the model's strings, in the order of their codes.
Alphabet ==
    <<"\t", "\n", " ", "#", "-", ".", "/">> \o Digits \o <<":", ";", "<", ">", "@">>
        \o UpperLetters \o <<"_">> \o LowerLetters \o <<"{", "}">>

CodeTable ==
    [c \in Range(Alphabet) |-> CHOOSE i \in 1..Len(Alphabet) : Alphabet[i] = c] @@ <<>>
Code(c) == CodeTable[c]

\* a < b on strings
StrLess(a, b) ==
    LET m == IF Len(a) < Len(b) THEN Len(a) ELSE Len(b)
        D == {i \in 1..m : a[i] # b[i]}
        d == CHOOSE i \in D : \A j \in D : i <= j
    IN  IF D = {} THEN Len(a) < Len(b) ELSE Code(a[d]) < Code(b[d])

\* hash(s) of the running process: string hashing is seeded per process
\* (PYTHONHASHSEED), the program neither sets nor reads the seed
RECURSIVE HashSum(_, _, _, _)
HashSum(s, lo, hi, seed) ==
    IF lo > hi THEN 0
    ELSE IF lo = hi THEN Code(s[lo]) * (((lo + seed) % 5) + 1)
    ELSE HashSum(s, lo, (lo + hi) \div 2, seed)
            + HashSum(s, ((lo + hi) \div 2) + 1, hi, seed)

StrHash(s, seed) == (HashSum(s, 1, Len(s), seed) * (seed + 1)) % 64

\* set(xs) of strings iterates in an order its hashes fix: here by hash
\* value, equal hash values by the strings.  str[x] is the string of the
\* element x and h[x] its hash.
IterBefore(a, b, h, str) ==
    h[a] < h[b] \/ (h[a] = h[b] /\ StrLess(str[a], str[b]))

FirstInOrder(S, k, h, str) ==
    {x \in S : Cardinality({y \in S : IterBefore(y, x, h, str)}) < k}

HashTable(S, seed, str) == [x \in S |-> StrHash(str[x], seed)] @@ <<>>

\* set(list(set(S))[:k]) for a set S of strings
SetPrefixOf(S, k, seed, str) ==
    IF Cardinality(S) <= k THEN S
    ELSE FirstInOrder(S, k, HashTable(S, seed, str), str)

\* the elements of S are strings
SetPrefix(S, k, seed) == SetPrefixOf(S, k, seed, [x \in S |-> x] @@ <<>>)

\* the elements of S are texts
TextSetPrefix(S, k, seed) ==
    SetPrefixOf(S, k, seed, [x \in S |-> Expand(x, TLen(x))] @@ <<>>)

\* list(set(S)): every element of S once, in the iteration order of the
\* process
ListOfSet(S, seed, str) ==
    LET h == HashTable(S, seed, str)
        place == [x \in S |->
                     Cardinality({y \in S : IterBefore(y, x, h, str)})] @@ <<>>
    IN  [r \in 1..Cardinality(S) |-> CHOOSE x \in S : place[x] = r - 1]

\* list(set(xs)) for a list xs of strings, and for a list of texts
ListKeepingRepeats(xs, seed) == xs
ListSet(xs, seed) ==
    ListOfSet(Range(xs), seed, [x \in Range(xs) |-> x] @@ <<>>)
TextListSet(xs, seed) ==
    ListOfSet(Range(xs), seed, [x \in Range(xs) |-> Expand(x, TLen(x))] @@ <<>>)

\* number of hex digits of s from position i on, counted up to 6
RECURSIVE HexRun(_, _, _)
HexRun(s, i, n) ==
    IF n = 6 \/ i > Len(s) \/ ~IsHexDigit(s[i]) THEN n ELSE HexRun(s, i + 1, n + 1)

\* set(re.findall(r'#(?:[0-9a-fA-F]{3}){1,2}', s)).  A match starts at a
\* "#" and holds no other "#", so matches never overlap and every "#"
\* followed by three hex digits starts one, of 6 digits when there are 6.
FindColorsIgnoringCase(s) ==
    {Lower(SubSeq(s, i, i + (IF HexRun(s, i + 1, 0) = 6 THEN 6 ELSE 3))) :
        i \in {k \in 1..Len(s) : s[k] = "#" /\ HexRun(s, k + 1, 0) >= 3}}
FindColors(s) ==
    {SubSeq(s, i, i + (IF HexRun(s, i + 1, 0) = 6 THEN 6 ELSE 3)) :
        i \in {k \in 1..Len(s) : s[k] = "#" /\ HexRun(s, k + 1, 0) >= 3}}

\* extract_colors_from_css(text)
extract_colors_from_css(text, seed) ==
    SetPrefix(FindColors(text), PageColorCap, seed)

\* hex_colors of extract_colors_from_css: the matches in the order of
\* the text, repeated ones included
ColorMatches(s) ==
    LET I == {k \in 1..Len(s) : s[k] = "#" /\ HexRun(s, k + 1, 0) >= 3}
        at == [r \in 1..Cardinality(I) |->
                  CHOOSE i \in I : Cardinality({j \in I : j < i}) = r - 1] @@ <<>>
    IN  [r \in 1..Cardinality(I) |->
            SubSeq(s, at[r], at[r] + (IF HexRun(s, at[r] + 1, 0) = 6 THEN 6 ELSE 3))]

\* the list extract_colors_from_css(text) returns
ColorList(text, seed) == Take(ListSet(ColorMatches(text), seed), PageColorCap)

\* the maximal runs of \w characters of a text; <<>> marks a gap
RECURSIVE WordSegments(_)
WordSegments(t) ==
    IF t = <<>> THEN <<>>
    ELSE IF Len(t) = 1
         THEN (IF IsWordChar(t[1][1]) THEN << t >> ELSE << <<>> >>)
    ELSE LET l == WordSegments(LeftHalf(t))
             r == WordSegments(RightHalf(t))
         IN  IF l[Len(l)] # <<>> /\ r[1] # <<>>
             THEN SubSeq(l, 1, Len(l) - 1) \o << l[Len(l)] \o r[1] >> \o Tail(r)
             ELSE l \o r

IsKeywordToken(w) ==
    /\ w # <<>>
    /\ \A i \in 1..Len(w) : IsLetter(w[i][1])
    /\ TLen(w) >= MinWordLen

\* re.findall(r'\b[a-zA-Z]{4,}\b', t)
FindWords(t) == SelectSeq(WordSegments(t), IsKeywordToken)

\* Counter(s): the keys in the order of their first occurrence, and the
\* count of each
CounterKeys(s) == Distinct(s)
CounterCounts(keys, s) ==
    Tabulate([i \in 1..Len(keys) |->
                 Cardinality({j \in 1..Len(s) : s[j] = keys[i]})])

\* the place of every key in sorted(items, key=count, reverse=True): the
\* sort is stable, so keys of equal count keep their order
SortedPlacesLastFirst(cnt) ==
    Tabulate([i \in 1..Len(cnt) |->
                 Cardinality({j \in 1..Len(cnt) :
                     cnt[j] > cnt[i] \/ (cnt[j] = cnt[i] /\ j > i)})])
SortedPlaces(cnt) ==
    Tabulate([i \in 1..Len(cnt) |->
                 Cardinality({j \in 1..Len(cnt) :
                     cnt[j] > cnt[i] \/ (cnt[j] = cnt[i] /\ j < i)})])

FirstPlaces(keys, place, n) ==
    [r \in 1..(IF n < Len(keys) THEN n ELSE Len(keys)) |->
        keys[CHOOSE i \in 1..Len(keys) : place[i] = r - 1]]

\* [w for w, c in Counter(s).most_common(n)]
MostCommonOf(keys, s, n) ==
    FirstPlaces(keys, SortedPlaces(CounterCounts(keys, s)), n)
MostCommon(s, n) == MostCommonOf(CounterKeys(s), s, n)

StopWordTexts == {Runs(StopWords[k]) : k \in 1..Len(StopWords)}
IsStopWord(w) == w \in StopWordTexts
NotStopWord(w) == ~IsStopWord(w)

\* filtered = [w for w in words if w not in stopwords]
FilteredWords(text) == SelectSeq(FindWords(TLower(text)), NotStopWord)

\* extract_keywords(text)
extract_keywords(text) == MostCommon(FilteredWords(text), KeywordCap)

\* clean_text(text)
clean_text(text) == TStrip(CollapseSpace(text))

(* ------------------------------ the site ------------------------------- *)
\* The inputs of the crawl: the strings and the documents that the web
\* server of the model serves, whatever the URL requested.  They hold
\* repeated, relative, self, foreign-host, subdomain and excluded links,
\* and more colors, CTAs, product links, words, headings and text than the
\* report keeps.
SeedUrl == <<"h","t","t","p",":","/","/","a",".","c","o","/">>
HostB == <<"h","t","t","p",":","/","/","b",".","c","o","/">>
SeedNoScheme == <<"a",".","c","o">>
SeedBadHost == <<"/","/","[">>
SeedBlog == <<"h","t","t","p",":","/","/","a",".","c","o","/","b","l","o","g">>
h_bad == <<"h","t","t","p",":","/","/","[">>
h_a == <<"/","a">>
h_b == <<"b">>
h_c == <<"c">>
h_d == <<"/","d">>
h_root == <<"/">>
h_features == <<"/","f","e","a","t","u","r","e","s">>
h_sub == <<"h","t","t","p",":","/","/","w",".","a",".","c","o","/","x">>
h_blog == <<"/","B","l","o","g","/","p","r","i","c","i","n","g">>
h_login == <<"h","t","t","p",":","/","/","a",".","c","o","/","l","o","g","i","n">>
h_mail == <<"m","a","i","l","t","o",":","x","@","a",".","c","o">>
w_alpha == <<" ","A","l","p","h","a","\n">>
w_beta == <<"B","e","t","a">>
w_gamma == <<"G","a","m","m","a">>
w_delta == <<"D","e","l","t","a">>
w_epsilon == <<"E","p","s","i","l","o","n">>
w_zeta == <<"Z","e","t","a">>
w_theta == <<"T","h","e","t","a">>
w_iota == <<"I","o","t","a">>
w_kappa == <<"K","a","p","p","a">>
w_lambda == <<"L","a","m","b","d","a">>
w_sigma == <<"S","i","g","m","a">>
w_leaf == <<"L","e","a","f">>
w_home == <<"h","o","m","e">>
w_next == <<"n","e","x","t">>
w_mail == <<"M","a","i","l">>
w_widgets == <<"W","i","d","g","e","t","s"," "," ">>
w_gadgets == <<"g","a","d","g","e","t","s"," ">>
w_omega == <<" ","o","m","e","g","a">>
w_country == <<"C","o","u","n","t","r","y">>
w_navcta == <<"T","r","y"," ","n","a","v">>
w_footcta == <<"T","r","y"," ","f","o","o","t","e","r">>
w_footer == <<"F","o","o","t","e","r">>
w_start == <<"S","t","a","r","t"," ","F","R","E","E"," ","n","o","w">>
css_home == <<"a","{","c","o","l","o","r",":","#","f","f","f",";","b",":","#","F","F","F","F","F","F",";","c",":","#","1","2","3","a","b","c",";","d",":","#","1","2","3","4","5",";","e",":","#","a","b",";","f",":","#","0","0","0","}">>
css_hub == <<"p","{","c","o","l","o","r",":","#","f","f","f",";","b",":","#","0","a","0",";","c",":","#","0","b","0",";","d",":","#","F","F","F",";","e",":","#","0","d","0","g","}">>

LongFiller == << <<"x", 1480>> >>

\* An element of a served document: its tag, the script / style / nav /
\* footer element it sits in ("" for none), its href attribute (<<>> for
\* none, <<url>> otherwise) and its text.  What the markup holds inside a
\* script or style element is the text of that element to the parser.
El(tag, within, href, text) ==
    [tag |-> tag, within |-> within, href |-> href, text |-> text]

\* an anchor to a page of another site, with a product word in its path
ForeignAnchor(k, digit, text) ==
    El("a", "", << HostB \o ProductHints[k] \o <<digit>> >>,
       Runs(text \o <<" ", digit>>))

HomePage ==
    << El("style", "", <<>>, Runs(css_home)),
       El("h1", "", <<>>, Runs(w_alpha)),
       El("a", "nav", <<h_a>>, Runs(w_navcta)),
       El("a", "script", <<h_d>>, Runs(w_next)),
       El("a", "", <<h_b>>, Runs(w_beta)),
       El("a", "", <<h_b>>, Runs(w_gamma)),
       El("a", "", <<h_c>>, Runs(w_zeta)),
       El("a", "", <<h_sub>>, Runs(w_delta)),
       El("a", "", <<h_blog>>, Runs(w_epsilon)),
       El("h2", "", <<>>, Runs(w_beta)),
       El("h2", "", <<>>, Runs(w_gamma)),
       El("h2", "", <<>>, Runs(w_delta)),
       El("h2", "", <<>>, Runs(w_epsilon)),
       El("h2", "", <<>>, Runs(w_zeta)),
       ForeignAnchor(1, "1", CtaPhrases[1]),
       ForeignAnchor(2, "1", CtaPhrases[2]),
       ForeignAnchor(3, "1", CtaPhrases[3]),
       ForeignAnchor(4, "1", CtaPhrases[4]),
       ForeignAnchor(5, "1", CtaPhrases[5]),
       El("button", "", <<>>, Runs(w_start)),
       El("p", "", <<>>, TCat(TCat(Runs(w_widgets), LongFiller), Runs(w_omega))),
       El("h2", "footer", <<>>, Runs(w_footer)) >>

HubPage ==
    << El("style", "", <<>>, Runs(css_hub)),
       El("h1", "", <<>>, Runs(w_theta)),
       El("h2", "", <<>>, Runs(w_iota)),
       El("h2", "", <<>>, Runs(w_kappa)),
       El("h2", "", <<>>, Runs(w_lambda)),
       El("h2", "", <<>>, Runs(w_sigma)),
       El("a", "", <<h_root>>, Runs(w_home)),
       El("a", "", <<h_c>>, Runs(w_next)),
       El("a", "", <<h_login>>, Runs(w_mail)),
       El("a", "", <<h_mail>>, Runs(w_mail)),
       ForeignAnchor(1, "2", CtaPhrases[3]),
       ForeignAnchor(2, "2", CtaPhrases[4]),
       ForeignAnchor(3, "2", CtaPhrases[5]),
       ForeignAnchor(4, "2", CtaPhrases[6]),
       ForeignAnchor(5, "2", w_country),
       ForeignAnchor(1, "3", CtaPhrases[1]),
       ForeignAnchor(1, "3", CtaPhrases[1]),
       ForeignAnchor(2, "3", CtaPhrases[2]),
       ForeignAnchor(3, "3", CtaPhrases[3]),
       ForeignAnchor(4, "3", CtaPhrases[4]),
       ForeignAnchor(5, "3", CtaPhrases[5]),
       ForeignAnchor(6, "3", CtaPhrases[6]),
       El("button", "", <<>>, Runs(CtaPhrases[7] \o <<" ", "3">>)),
       El("p", "", <<>>, TCat(Runs(w_gadgets), LongFiller)) >>

\* a style sheet with 16 colors, the first of them twice
css_leaf ==
    <<"#", "a", "0", "0", ";">>
        \o [i \in 1..80 |->
               <<"#", "a", Digits[((i - 1) \div 50) + 1],
                 Digits[(((i - 1) \div 5) % 10) + 1], ";">>[((i - 1) % 5) + 1]]

LeafPage ==
    << El("style", "", <<>>, Runs(css_leaf)),
       El("h1", "", <<>>, Runs(w_leaf)),
       El("a", "footer", <<h_features>>, Runs(w_footcta)) >>

\* a page one of whose anchors has an href that no URL parser accepts
BrokenPage ==
    << El("h1", "", <<>>, Runs(w_leaf)),
       El("a", "", <<h_a>>, Runs(w_beta)),
       El("a", "", <<h_bad>>, Runs(w_gamma)) >>

\* the documents a successful GET can return
Bodies == {HomePage, HubPage, LeafPage, BrokenPage}

\* the start_url arguments the model passes: a well-formed URL, a host name
\* without a scheme, and a scheme-less URL with a malformed host
Seeds == {SeedUrl, SeedNoScheme, SeedBadHost}

\* the hash seeds of the processes the model runs the crawl in
HashSeeds == {0, 1}

(* ------------------------------ the crawl ------------------------------ *)
VARIABLES
    start_url, max_depth, max_pages,   \* the arguments of the call
    hash_seed,                         \* the string hash seed of the process
    pc,                                \* "loop" in the while loop, "done" after
                                       \* return, "raised" once an exception has
                                       \* left the function
    visited, to_visit,                 \* the visited set and the frontier
    all_text, all_headings, all_colors, all_ctas, all_product_links,
    returned,                          \* <<>>, or <<report>> once returned
    gets,                              \* for every URL requested: number of GETs
    failed,                            \* URLs of which some GET failed
    visited_at,                        \* <<url, depth, links of the page, its
                                       \* document>> of every visited.add
    last,                              \* the last step: what it did, to which
                                       \* target, and the links of its page
    peer,                              \* the frame of the other call of the
                                       \* function in this process while that
                                       \* call is not running, <<>> if none
    running,                           \* the call that is running: 1 or 2
    chat_history,                      \* session["chat_history"] of a session
    chat_calls,                        \* the chat_with_context calls on that
                                       \* session that have returned
    kw_text,                           \* a text given to extract_keywords
    kw_runs,                           \* what each application of it to kw_text
                                       \* returned, and the hash seed of the
                                       \* process that ran it
    session,                           \* the brand session that a call of
                                       \* ensure_brand_completeness works on
    session_at_call,                   \* that session as the call found it
    ebc_pc,                            \* where the call is: "name", "tagline",
                                       \* "logo", "palette", "save", "returned",
                                       \* or "raised" once a generator raised
    generated,                         \* its local variable
    ebc_result,                        \* <<>>, or <<value>> once it returned
    stored,                            \* the session as save_sessions() last
                                       \* wrote it
    endpoint_calls,                    \* the calls of the session endpoints
                                       \* for the logo and the color palette:
                                       \* request, session before and after,
                                       \* and what the call returned
    users_file,                        \* users.json: <<"absent">>, <<"json",
                                       \* users>>, <<"empty">> between the open
                                       \* and the dump of a save_users, or
                                       \* <<"corrupt">>
    auth_calls,                        \* the calls of register_user and
                                       \* login_user, in the order they were
                                       \* made: arguments, position, local
                                       \* `users`, result
    auth_threads                       \* how many of them the server runs at
                                       \* a time

\* The frame of the running call: its arguments and locals, the process's
\* hash seed as it sees it, and the record of what it did.
frame ==
    <<start_url, max_depth, max_pages, hash_seed, pc, visited, to_visit,
      all_text, all_headings, all_colors, all_ctas, all_product_links, returned,
      gets, failed, visited_at, last>>

\* the applications of extract_keywords on its own
keyword_state == <<kw_text, kw_runs>>

\* a call of ensure_brand_completeness
brand_state ==
    <<session, session_at_call, ebc_pc, generated, ebc_result, stored>>

\* the users file and the calls of auth_manager
auth_state == <<users_file, auth_calls, auth_threads>>

\* the other calls of the crawl, the state of the chat and the rest
others ==
    <<peer, running, chat_history, chat_calls, keyword_state, brand_state,
      auth_state, endpoint_calls>>

vars == <<frame, others>>

args == <<start_url, max_depth, max_pages, hash_seed>>

accumulators ==
    <<all_text, all_headings, all_colors, all_ctas, all_product_links>>

\* domain = urlparse(start_url).netloc
domain == Netloc(start_url)

\* the depth budget the loop compares depths with
DepthLimitOffByOne == max_depth + 1
DepthLimit == max_depth

\* while to_visit and len(visited) < max_pages
LoopGuardOffByOne == to_visit # <<>> /\ Cardinality(visited) <= max_pages
LoopGuard == to_visit # <<>> /\ Cardinality(visited) < max_pages

\* if depth > max_depth or url in visited: continue
SkipHeadWithExclusionTerm(url, depth) ==
    depth > DepthLimit \/ url \in visited \/ ContainsAny(Lower(url), SkipTerms)
SkipHeadAtLimit(url, depth) == depth >= DepthLimit \/ url \in visited
SkipHeadIgnoringVisited(url, depth) == depth > DepthLimit
SkipHead(url, depth) == depth > DepthLimit \/ url \in visited

StrippedTags == {"script", "style", "nav", "footer"}

\* BeautifulSoup(resp.text, "html.parser"): the content of script and style
\* elements is character data, in which the parser sees no tags
RawTextTags == {"script", "style"}
IsTag(e) == e.within \notin RawTextTags

\* whether the list comprehension of line 87 raises: some urljoin does
PageLinksRaise(url, doc) ==
    \E i \in 1..Len(doc) :
        /\ IsTag(doc[i]) /\ doc[i].tag = "a" /\ doc[i].href # <<>>
        /\ UrlJoinError(url, doc[i].href[1])

\* [urljoin(url, a["href"]) for a in soup.find_all("a", href=True)]
PageLinksAfterStripping(url, doc) ==
    LET anchors == SelectSeq(doc, LAMBDA e :
                      /\ e.tag = "a" /\ e.href # <<>>
                      /\ e.within \notin {"script", "style", "nav", "footer"})
    IN  [i \in 1..Len(anchors) |-> UrlJoin(url, anchors[i].href[1])]
PageLinks(url, doc) ==
    LET anchors == SelectSeq(doc, LAMBDA e :
                      IsTag(e) /\ e.tag = "a" /\ e.href # <<>>)
    IN  [i \in 1..Len(anchors) |-> UrlJoin(url, anchors[i].href[1])]

\* for tag in soup(["script", "style", "nav", "footer"]): tag.decompose()
DecomposeScriptsAndStyles(doc) ==
    SelectSeq(doc, LAMBDA e : e.tag \notin RawTextTags /\ e.within \notin RawTextTags)
Decompose(doc) ==
    SelectSeq(doc, LAMBDA e : e.tag \notin StrippedTags /\ e.within \notin StrippedTags)

\* soup.get_text(separator=" ")
GetText(doc) == TJoin([i \in 1..Len(doc) |-> doc[i].text], << <<" ", 1>> >>)

\* tag.get_text(strip=True)
StrippedText(e) == TStrip(e.text)

\* resp.text, as far as the color pattern can tell: the markup of every
\* element with its href and its text.  A run of one character longer than
\* 7 is cut to 7, which no match of the pattern (at most 6 digits) can see.
RECURSIVE Flatten(_)
Flatten(ss) ==
    IF ss = <<>> THEN <<>>
    ELSE IF Len(ss) = 1 THEN ss[1]
    ELSE Flatten(LeftHalf(ss)) \o Flatten(RightHalf(ss))

HtmlSource(doc) ==
    Flatten([i \in 1..Len(doc) |->
        <<"<">> \o (IF doc[i].href = <<>> THEN <<>> ELSE doc[i].href[1])
                \o <<">">> \o Expand(doc[i].text, 7)])

\* detect_ctas(soup)
CtaTexts(doc) ==
    {t \in {TLower(StrippedText(doc[i])) :
                i \in {k \in 1..Len(doc) : doc[k].tag \in {"a", "button"}}} :
        ContainsAny(Expand(t, TLen(t)), CtaPhrases)}

detect_ctas(doc, seed) == TextSetPrefix(CtaTexts(doc), PageCtaCap, seed)

\* detect_product_links(links)
ProductLinksOfTargets(links) ==
    {l \in Range(links) :
        /\ ContainsAny(Lower(l), ProductHints)
        /\ Netloc(l) = domain
        /\ ~ContainsAny(Lower(l), SkipTerms)}
ProductLinks(links) ==
    {l \in Range(links) : ContainsAny(Lower(l), ProductHints)}

detect_product_links(links, seed) ==
    SetPrefix(ProductLinks(links), PageProductCap, seed)

\* ctas of detect_ctas and product_links of detect_product_links: the
\* lists the loops build, in the order of the document, before set(...)
CtaMatches(doc) ==
    LET tags == SelectSeq(doc, LAMBDA e : e.tag \in {"a", "button"})
        texts == [i \in 1..Len(tags) |-> TLower(StrippedText(tags[i]))]
    IN  SelectSeq(texts, LAMBDA t : ContainsAny(Expand(t, TLen(t)), CtaPhrases))
ProductMatches(links) ==
    SelectSeq(links, LAMBDA l : ContainsAny(Lower(l), ProductHints))

\* the lists detect_ctas(soup) and detect_product_links(links) return
CtaList(doc, seed) == Take(TextListSet(CtaMatches(doc), seed), PageCtaCap)
ProductList(links, seed) ==
    Take(ListSet(ProductMatches(links), seed), PageProductCap)

\* parsed.netloc == domain
SameHostOrSubdomain(link, host) ==
    LET n == Netloc(link)
    IN  Len(n) >= Len(host) /\ SubSeq(n, Len(n) - Len(host) + 1, Len(n)) = host
SameHost(link, host) == Netloc(link) = host

\* any(skip in link.lower() for skip in [...])
IsSkippedCaseSensitive(link) == ContainsAny(link, SkipTerms)
IsSkipped(link) == ContainsAny(Lower(link), SkipTerms)

\* the links of a page at `depth` that line 117 appends to the frontier
NewTargetsAtAnyDepth(links, depth, seen) ==
    LET keep == SelectSeq(links, LAMBDA l :
                    SameHost(l, domain) /\ l \notin seen /\ ~IsSkipped(l))
    IN  [i \in 1..Len(keep) |-> <<keep[i], depth + 1>>]
NewTargets(links, depth, seen) ==
    IF depth < DepthLimit
    THEN LET keep == SelectSeq(links, LAMBDA l :
                        SameHost(l, domain) /\ l \notin seen /\ ~IsSkipped(l))
         IN  [i \in 1..Len(keep) |-> <<keep[i], depth + 1>>]
    ELSE <<>>

\* page_text[:1500], the part of a page's text that line 94 appends
PageTextUncut(page_text) == page_text
PageTextHead(page_text) == TTake(page_text, PageTextCap)

\* all_colors.extend(colors), and the same for CTAs and product links: the
\* values a page returned join those of the pages before it
Overwrite(acc, xs) == xs
Extend(acc, xs) == acc \cup xs

\* to_visit.append(...) for each new target, in the order of the links
EnqueueFront(queue, targets) == targets \o queue
Enqueue(queue, targets) == queue \o targets

Bump(f, x) ==
    IF x \in DOMAIN f THEN [f EXCEPT ![x] = @ + 1] ELSE f @@ (x :> 1)

\* the frame of a call after lines 54-64
CallLocals ==
    /\ pc = IF UrlError(start_url) THEN "raised" ELSE "loop"
    /\ visited = {}
    /\ to_visit = << <<start_url, 0>> >>
    /\ all_text = <<>>
    /\ all_headings = <<>>
    /\ all_colors = {}
    /\ all_ctas = {}
    /\ all_product_links = {}
    /\ returned = <<>>
    /\ gets = <<>>
    /\ failed = {}
    /\ visited_at = {}
    /\ last = [op |-> "call", url |-> <<>>, depth |-> 0, links |-> <<>>]

CallInit(depths, pages) ==
    /\ start_url \in Seeds
    /\ hash_seed \in HashSeeds
    /\ max_depth \in 0..depths
    /\ max_pages \in 1..pages
    /\ CallLocals

\* one call of analyze_competitor_site, nothing else running
NoChat == chat_history = <<>> /\ chat_calls = 0
NoKeywords == kw_text = <<>> /\ kw_runs = <<>>

\* None
None == << "None" >>

\* the fields of brand_sessions[session_id] that ensure_brand_completeness
\* and the session endpoints write, as the session is created (main.py,
\* lines 238-262); the fields they only read (industry, keywords, tone)
\* are left out
NewSession ==
    [brand_name |-> None, tagline |-> None, logo_prompt |-> None,
     logo_image |-> None, color_palette |-> None, color_palette_hex |-> None,
     color_palette_primary |-> None, color_palette_secondary |-> None,
     version |-> 1,
     history |-> [brand_names |-> <<>>, taglines |-> <<>>,
                  logo_prompts |-> <<>>, color_palettes |-> <<>>]]

NoBrand ==
    /\ session = NewSession
    /\ session_at_call = NewSession
    /\ ebc_pc = "name"
    /\ generated = FALSE
    /\ ebc_result = <<>>
    /\ stored = NewSession
    /\ endpoint_calls = <<>>

\* no users file yet and no call of auth_manager
NoAuth ==
    /\ users_file = <<"absent">>
    /\ auth_calls = <<>>
    /\ auth_threads = 1

Init ==
    /\ CallInit(MaxDepthBound, MaxPagesBound)
    /\ peer = <<>>
    /\ running = 1
    /\ NoChat
    /\ NoKeywords
    /\ NoBrand
    /\ NoAuth

\* an iteration that pops the head and continues at line 70
SkipWithoutPop ==
    /\ pc = "loop"
    /\ LoopGuard
    /\ SkipHead(Head(to_visit)[1], Head(to_visit)[2])
    /\ to_visit' = to_visit
    /\ last' = [op |-> "skip", url |-> Head(to_visit)[1],
                depth |-> Head(to_visit)[2], links |-> <<>>]
    /\ UNCHANGED <<others, args, pc, visited, accumulators, returned, gets, failed,
                   visited_at>>
Skip ==
    /\ pc = "loop"
    /\ LoopGuard
    /\ SkipHead(Head(to_visit)[1], Head(to_visit)[2])
    /\ to_visit' = Tail(to_visit)
    /\ last' = [op |-> "skip", url |-> Head(to_visit)[1],
                depth |-> Head(to_visit)[2], links |-> <<>>]
    /\ UNCHANGED <<others, args, pc, visited, accumulators, returned, gets, failed,
                   visited_at>>

\* except: continue
ErrorBreak ==
    /\ pc' = "loop"
    /\ to_visit' = <<>>
    /\ UNCHANGED <<visited, visited_at, accumulators>>
ErrorContinue ==
    /\ pc' = "loop"
    /\ to_visit' = Tail(to_visit)
    /\ UNCHANGED <<visited, visited_at, accumulators>>

\* an iteration whose GET times out, fails to connect or returns a status
\* that raise_for_status() rejects
FetchFail ==
    /\ pc = "loop"
    /\ LoopGuard
    /\ ~SkipHead(Head(to_visit)[1], Head(to_visit)[2])
    /\ gets' = Bump(gets, Head(to_visit)[1])
    /\ failed' = failed \cup {Head(to_visit)[1]}
    /\ ErrorContinue
    /\ last' = [op |-> "fetch_fail", url |-> Head(to_visit)[1],
                depth |-> Head(to_visit)[2], links |-> <<>>]
    /\ UNCHANGED <<others, args, returned>>

\* an iteration whose GET succeeds and returns a document on which line 87
\* raises: nothing catches the exception (the try statement ends at line
\* 80), so it leaves analyze_competitor_site
FetchOkThenRaise ==
    /\ pc = "loop"
    /\ LoopGuard
    /\ ~SkipHead(Head(to_visit)[1], Head(to_visit)[2])
    /\ CanRequest(Head(to_visit)[1])
    /\ \E doc \in Bodies :
        /\ PageLinksRaise(Head(to_visit)[1], doc)
        /\ visited_at' =
              visited_at \cup {<<Head(to_visit)[1], Head(to_visit)[2], <<>>, doc>>}
    /\ gets' = Bump(gets, Head(to_visit)[1])
    /\ visited' = visited \cup {Head(to_visit)[1]}
    /\ to_visit' = Tail(to_visit)
    /\ pc' = "raised"
    /\ last' = [op |-> "fetch_raise", url |-> Head(to_visit)[1],
                depth |-> Head(to_visit)[2], links |-> <<>>]
    /\ UNCHANGED <<others, args, accumulators, returned, failed>>

\* an iteration whose GET succeeds and returns the document doc
FetchOk ==
    /\ pc = "loop"
    /\ LoopGuard
    /\ ~SkipHead(Head(to_visit)[1], Head(to_visit)[2])
    /\ CanRequest(Head(to_visit)[1])
    /\ \E doc \in {d \in Bodies : ~PageLinksRaise(Head(to_visit)[1], d)} :
        LET url == Head(to_visit)[1]
            depth == Head(to_visit)[2]
            links == PageLinks(url, doc)
            soup == Decompose(doc)
            page_text == clean_text(GetText(soup))
            hs == SelectSeq(soup, LAMBDA e : e.tag \in {"h1", "h2"})
            headings == [i \in 1..Len(hs) |-> StrippedText(hs[i])]
        IN  /\ gets' = Bump(gets, url)
            /\ visited' = visited \cup {url}
            /\ visited_at' = visited_at \cup {<<url, depth, links, doc>>}
            /\ all_text' = TCat(TCat(all_text, << <<" ", 1>> >>),
                                PageTextHead(page_text))
            /\ all_headings' = all_headings \o Take(headings, PageHeadingCap)
            /\ all_colors' =
                  Extend(all_colors,
                         extract_colors_from_css(HtmlSource(doc), hash_seed))
            /\ all_ctas' = Extend(all_ctas, detect_ctas(soup, hash_seed))
            /\ all_product_links' =
                  Extend(all_product_links,
                         detect_product_links(links, hash_seed))
            /\ to_visit' = Enqueue(Tail(to_visit),
                                   NewTargets(links, depth, visited'))
            /\ last' = [op |-> "fetch_ok", url |-> url, depth |-> depth,
                        links |-> links]
    /\ UNCHANGED <<others, args, pc, returned, failed>>

ReportUncapped ==
    [pages_scraped |-> Cardinality(visited),
     top_keywords |-> extract_keywords(all_text),
     headings |-> all_headings,
     detected_colors |-> all_colors,
     ctas |-> all_ctas,
     product_links |-> all_product_links,
     text_sample |-> all_text]

ReportWithoutSample ==
    [pages_scraped |-> Cardinality(visited),
     top_keywords |-> extract_keywords(all_text),
     headings |-> Take(all_headings, HeadingCap),
     detected_colors |-> SetPrefix(all_colors, ColorCap, hash_seed),
     ctas |-> TextSetPrefix(all_ctas, CtaCap, hash_seed),
     product_links |-> SetPrefix(all_product_links, ProductCap, hash_seed)]

ReportKeywordsOfSample ==
    [pages_scraped |-> Cardinality(visited),
     top_keywords |-> extract_keywords(TTake(all_text, TextSampleCap)),
     headings |-> Take(all_headings, HeadingCap),
     detected_colors |-> SetPrefix(all_colors, ColorCap, hash_seed),
     ctas |-> TextSetPrefix(all_ctas, CtaCap, hash_seed),
     product_links |-> SetPrefix(all_product_links, ProductCap, hash_seed),
     text_sample |-> TTake(all_text, TextSampleCap)]

\* the report of lines 119-129.  all_colors, all_ctas and all_product_links
\* are lists in the program and are read only through set(...), so the
\* model keeps their sets.
Report ==
    [pages_scraped |-> Cardinality(visited),
     top_keywords |-> extract_keywords(all_text),
     headings |-> Take(all_headings, HeadingCap),
     detected_colors |-> SetPrefix(all_colors, ColorCap, hash_seed),
     ctas |-> TextSetPrefix(all_ctas, CtaCap, hash_seed),
     product_links |-> SetPrefix(all_product_links, ProductCap, hash_seed),
     text_sample |-> TTake(all_text, TextSampleCap)]

\* The report the same crawl (same arguments, same responses) returns in a
\* process whose string hash seed is `seed`: the per-page extractors and the
\* report read their sets in the order of that process.
ReportIn(seed) ==
    [pages_scraped |-> Cardinality(visited),
     top_keywords |-> extract_keywords(all_text),
     headings |-> Take(all_headings, HeadingCap),
     detected_colors |->
        SetPrefix(UNION {extract_colors_from_css(HtmlSource(p[4]), seed) :
                            p \in visited_at}, ColorCap, seed),
     ctas |->
        TextSetPrefix(UNION {detect_ctas(Decompose(p[4]), seed) :
                                p \in visited_at}, CtaCap, seed),
     product_links |->
        SetPrefix(UNION {detect_product_links(p[3], seed) : p \in visited_at},
                  ProductCap, seed),
     text_sample |-> TTake(all_text, TextSampleCap)]

\* the loop ends and the function returns its report
Return ==
    /\ pc = "loop"
    /\ ~LoopGuard
    /\ returned' = <<Report>>
    /\ pc' = "done"
    /\ last' = [op |-> "return", url |-> <<>>, depth |-> 0, links |-> <<>>]
    /\ UNCHANGED <<others, args, visited, to_visit, accumulators, gets, failed,
                   visited_at>>

Next == Skip \/ FetchFail \/ FetchOk \/ FetchOkThenRaise \/ Return

Spec == Init /\ [][Next]_vars

\* the crawl of a site from a page whose URL holds an exclusion term, or
\* from its home page
SeedInit ==
    /\ start_url \in {SeedBlog, SeedUrl}
    /\ hash_seed = 0
    /\ max_depth \in 0..SeedDepthBound
    /\ max_pages \in 1..SeedPagesBound
    /\ CallLocals
    /\ peer = <<>>
    /\ running = 1
    /\ NoChat
    /\ NoKeywords
    /\ NoBrand
    /\ NoAuth

SeedSpec == SeedInit /\ [][Next]_vars

\* The crawl as it is scheduled: the function runs in one thread that
\* nothing preempts for good, and a GET returns or raises (it is given
\* timeout=6), so an iteration that can be taken is taken.
\* Return happens once and ENABLED <<Return>>_vars is its guard, so this
\* is WF_vars(Return) with the guard written out.
ReturnTaken == []<>~(pc = "loop" /\ ~LoopGuard)

LiveSpec ==
    /\ Spec
    /\ WF_vars(Skip)
    /\ WF_vars(FetchFail \/ FetchOk \/ FetchOkThenRaise)
    /\ ReturnTaken


\* generate_competitor_analysis: the keys of structured_data that the
\* prompt interpolates with structured_data[key]
PromptFields ==
    {"pages_scraped", "top_keywords", "headings", "detected_colors", "ctas",
     "product_links", "text_sample"}

(* ---------------------------- two calls -------------------------------- *)
\* Two calls of analyze_competitor_site in one process (two requests served
\* by the worker threads of the API), interleaved at the iterations of
\* their loops.  Each call has its own frame: the function creates visited,
\* to_visit and the accumulators in its body (lines 56-64), its defaults
\* are integers, and the module has no global but its imports.  The
\* variables of the crawl hold the frame of the running call and `peer`
\* that of the other; the two calls see the one hash seed of the process.
\* Call 1 crawls with the budgets PairDepthBound and PairPagesBound and
\* call 2, of any seed, requests its seed only (max_depth 0, max_pages 1),
\* at any point of call 1.  The order of the process's sets plays no part
\* in what two calls share, so one hash seed is looked at.
InitialFrame(url, depth, pages, seed) ==
    <<url, depth, pages, seed, IF UrlError(url) THEN "raised" ELSE "loop", {},
      << <<url, 0>> >>, <<>>, <<>>, {}, {}, {}, <<>>, <<>>, {}, {},
      [op |-> "call", url |-> <<>>, depth |-> 0, links |-> <<>>]>>

PairInit ==
    /\ CallInit(PairDepthBound, PairPagesBound)
    /\ max_depth = PairDepthBound
    /\ max_pages = PairPagesBound
    /\ hash_seed = 0
    /\ running = 1
    /\ NoChat
    /\ NoKeywords
    /\ NoBrand
    /\ NoAuth
    /\ \E url \in Seeds : peer = InitialFrame(url, 0, 1, hash_seed)

\* the scheduler suspends the running call and resumes the other one
SwitchSharingVisited ==
    /\ peer # <<>>
    /\ start_url' = peer[1]
    /\ max_depth' = peer[2]
    /\ max_pages' = peer[3]
    /\ hash_seed' = peer[4]
    /\ pc' = peer[5]
    /\ visited' = visited
    /\ to_visit' = peer[7]
    /\ all_text' = peer[8]
    /\ all_headings' = peer[9]
    /\ all_colors' = peer[10]
    /\ all_ctas' = peer[11]
    /\ all_product_links' = peer[12]
    /\ returned' = peer[13]
    /\ gets' = peer[14]
    /\ failed' = peer[15]
    /\ visited_at' = peer[16]
    /\ last' = peer[17]
    /\ peer' = frame
    /\ running' = 3 - running
    /\ UNCHANGED <<chat_history, chat_calls, keyword_state, brand_state,
                   auth_state, endpoint_calls>>
Switch ==
    /\ peer # <<>>
    /\ start_url' = peer[1]
    /\ max_depth' = peer[2]
    /\ max_pages' = peer[3]
    /\ hash_seed' = peer[4]
    /\ pc' = peer[5]
    /\ visited' = peer[6]
    /\ to_visit' = peer[7]
    /\ all_text' = peer[8]
    /\ all_headings' = peer[9]
    /\ all_colors' = peer[10]
    /\ all_ctas' = peer[11]
    /\ all_product_links' = peer[12]
    /\ returned' = peer[13]
    /\ gets' = peer[14]
    /\ failed' = peer[15]
    /\ visited_at' = peer[16]
    /\ last' = peer[17]
    /\ peer' = frame
    /\ running' = 3 - running
    /\ UNCHANGED <<chat_history, chat_calls, keyword_state, brand_state,
                   auth_state, endpoint_calls>>

PairNext ==
    Skip \/ FetchFail \/ FetchOk \/ FetchOkThenRaise \/ Return \/ Switch

PairSpec == PairInit /\ [][PairNext]_vars

(* ------------------------------ the chat ------------------------------- *)
\* chat_with_context(session, user_message) on one session, whose
\* chat_history is [] when the session is created (main.py, line 260) and is
\* written by this function only.
UserMessages == {"name?", "logo?", "tone?"}
AiResponses == {"yes", "no"}

\* s[-n:]
LastN(s, n) == IF Len(s) <= n THEN s ELSE SubSeq(s, Len(s) - n + 1, Len(s))

\* recent_history of build_chat_prompt: what of the history the model is
\* shown
recent_history(history) == LastN(history, PromptHistoryCap)

\* if len(session["chat_history"]) > 4: keep the last 4
KeepAll(history) == history
Truncate(history) ==
    IF Len(history) > HistoryCap THEN LastN(history, HistoryCap) ELSE history

\* A call that returns: the prompt is built, the API answers, the two
\* messages are appended and the history is cut.  A call in which the API
\* raises appends nothing and leaves the session as it is.
ChatWithContext ==
    /\ chat_calls < ChatCallsBound
    /\ \E user_message \in UserMessages, ai_response \in AiResponses :
          chat_history' =
              Truncate(chat_history
                       \o << [role |-> "user", content |-> user_message],
                             [role |-> "assistant", content |-> ai_response] >>)
    /\ chat_calls' = chat_calls + 1
    /\ UNCHANGED <<frame, peer, running, keyword_state, brand_state, auth_state, endpoint_calls>>

ChatInit ==
    /\ CallInit(0, 1)
    /\ start_url = SeedUrl
    /\ hash_seed = 0
    /\ peer = <<>>
    /\ running = 1
    /\ NoChat
    /\ NoKeywords
    /\ NoBrand
    /\ NoAuth

ChatNext == ChatWithContext

ChatSpec == ChatInit /\ [][ChatNext]_vars

(* ---------------------------- the keywords ---------------------------- *)
\* extract_keywords(text) on its own, applied to one text more than once.
\* The texts are words separated by spaces: up to one word, then nothing or
\* 20 distinct words, then up to KeywordWordsBound words, the words before
\* and after taken from a vocabulary with capitals, a stop word, the capital
\* form of a word of the fixed part, and a word with a hyphen and a digit.
KeywordVocabulary ==
    { <<"Z","e","t","a">>, <<"z","e","t","a">>, <<"W","i","t","h">>,
      <<"T","T","T","T">>,
      <<"w","e","l","l","-","m","a","d","e","2">> }

BaseWords == [k \in 1..20 |-> [i \in 1..4 |-> LowerLetters[k]]]

SeqsUpTo(S, n) == UNION {[1..k -> S] : k \in 0..n}

TextOfWords(ws) == TJoin([i \in 1..Len(ws) |-> Runs(ws[i])], << <<" ", 1>> >>)

KeywordTexts ==
    {TextOfWords(pre \o base \o post) :
        pre \in SeqsUpTo(KeywordVocabulary, 1),
        base \in {<<>>, BaseWords},
        post \in SeqsUpTo(KeywordVocabulary, KeywordWordsBound)}

\* keywords = extract_keywords(all_text), the one call of the function
KeywordsInSetOrder ==
    MostCommonOf(TextListSet(FilteredWords(kw_text), hash_seed),
                 FilteredWords(kw_text), KeywordCap)
KeywordsOfCall == extract_keywords(kw_text)

\* One application.  The next one may run in another process (another
\* worker, or the service restarted), whose string hash seed is its own.
ExtractKeywords ==
    /\ Len(kw_runs) < KeywordRunsBound
    /\ kw_runs' = Append(kw_runs, [seed |-> hash_seed, keywords |-> KeywordsOfCall])
    /\ hash_seed' \in HashSeeds
    /\ UNCHANGED <<start_url, max_depth, max_pages, pc, visited, to_visit,
                   accumulators, returned, gets, failed, visited_at, last>>
    /\ UNCHANGED <<peer, running, chat_history, chat_calls, kw_text, brand_state,
                   auth_state, endpoint_calls>>

KeywordInit ==
    /\ CallInit(0, 1)
    /\ start_url = SeedUrl
    /\ peer = <<>>
    /\ running = 1
    /\ NoChat
    /\ kw_text \in KeywordTexts
    /\ kw_runs = <<>>
    /\ NoBrand
    /\ NoAuth

KeywordNext == ExtractKeywords

KeywordSpec == KeywordInit /\ [][KeywordNext]_vars

(* ----------------------- the brand completeness ----------------------- *)
\* ensure_brand_completeness(session, session_id) (main.py, lines 283-384)
\* and the generators it calls (ai_service.py).  A generator sends a prompt
\* to the language model and works on the text that comes back, or raises
\* when the API call fails; the texts below are what the model may answer.
\* Strings are sequences of characters and None is the value None.
NameOutputs ==
    { <<"1","."," ","A","c","m","e","\n","2","."," ","B","o","l","t","\n","3","."," ","A","c","m","e">>,
      <<"S","o","r","r","y">>,
      <<"1",".">> }
TaglineOutputs ==
    { <<"1","."," ","F","l","y"," ","h","i","g","h","\n","2","."," ","G","o"," ","f","a","r">>,
      <<"T","a","g","l","i","n","e","s",":","\n","-"," ","B","o","l","d"," ","m","o","v","e","s","\n","1","."," ","x">>,
      <<"J","u","s","t"," ","d","o">>,
      <<>>,
      <<"1",".">>,
      <<"*"," ","2",".","5"," ","s","t","a","r","s">>,
      <<" "," "," "," "," "," "," "," "," "," "," "," "," "," "," "," "," "," "," "," "," "," "," "," "," "," "," "," "," "," "," "," "," "," "," "," "," "," "," "," "," "," "," "," "," "," "," "," "," "," "," ">> }
LogoOutputs ==
    { <<"A"," ","f","o","x">>,
      <<>> }
PaletteOutputs ==
    { <<"#","f","f","f"," ","a","n","d"," ","#","0","0","0","0","0","0">>,
      <<"#","f","f","f","f"," ","#","1","2","3","4","5"," ","#","a","b","c",".">>,
      <<>> }

\* s.split(sep)
SplitAt(s, sep) ==
    LET P == {i \in 1..Len(s) : s[i] = sep}
        cut == [r \in 0..(Cardinality(P) + 1) |->
                   IF r = 0 THEN 0
                   ELSE IF r = Cardinality(P) + 1 THEN Len(s) + 1
                   ELSE CHOOSE i \in P : Cardinality({j \in P : j < i}) = r - 1]
    IN  [k \in 1..(Cardinality(P) + 1) |-> SubSeq(s, cut[k - 1] + 1, cut[k] - 1)]

\* s.strip()
StripStr(s) ==
    LET I == {i \in 1..Len(s) : ~IsSpace(s[i])}
    IN  IF I = {} THEN <<>>
        ELSE SubSeq(s, CHOOSE i \in I : \A j \in I : i <= j,
                       CHOOSE i \in I : \A j \in I : j <= i)

\* s.lstrip(chars)
LStripChars(s, chars) ==
    LET I == {i \in 1..Len(s) : s[i] \notin chars}
    IN  IF I = {} THEN <<>>
        ELSE SubSeq(s, CHOOSE i \in I : \A j \in I : i <= j, Len(s))

\* s.split(c, 1)[1], for s with c in it
AfterFirst(s, c) == SubSeq(s, FirstAt(s, {c}, 1) + 1, Len(s))

\* `not x` is false of x
Truthy(x) == x # None /\ x # <<>>

\* generate_brand_names: the names of the numbered lines of the answer,
\* without repetition
generate_brand_names(raw_output) ==
    LET lines == SplitAt(raw_output, "\n")
        stripped == [i \in 1..Len(lines) |-> StripStr(lines[i])]
        listed == SelectSeq(stripped, LAMBDA l : l # <<>> /\ "." \in Range(l))
    IN  Distinct([i \in 1..Len(listed) |-> StripStr(AfterFirst(listed[i], "."))])

\* re.findall(r'#(?:[0-9a-fA-F]{3}){1,2}\b', s): as ColorMatches, but a
\* match ends where no word character follows
HexCodeLen(s, k) ==
    LET n == HexRun(s, k + 1, 0)
        ends(m) == k + m = Len(s) \/ ~IsWordChar(s[k + m + 1])
    IN  IF n = 6 /\ ends(6) THEN 6 ELSE IF n = 3 /\ ends(3) THEN 3 ELSE 0
HexCodes(s) ==
    LET I == {k \in 1..Len(s) : s[k] = "#" /\ HexCodeLen(s, k) > 0}
        at == [r \in 1..Cardinality(I) |->
                  CHOOSE i \in I : Cardinality({j \in I : j < i}) = r - 1] @@ <<>>
    IN  [r \in 1..Cardinality(I) |-> SubSeq(s, at[r], at[r] + HexCodeLen(s, at[r]))]

\* get_color_palette
get_color_palette(raw_output) ==
    LET hex_codes == HexCodes(raw_output)
    IN  [full_description |-> raw_output,
         hex_codes |-> Take(hex_codes, 5),
         primary |-> IF hex_codes # <<>> THEN hex_codes[1] ELSE None,
         secondary |-> IF Len(hex_codes) > 1 THEN hex_codes[2] ELSE None]

\* The tagline that lines 318-343 take from the answer.  The first
\* character of the bullet list and of the lstrip set of the source is not
\* an ASCII character; the answers of the model hold ASCII only.
FirstTagline(tagline_result) ==
    LET lines == SplitAt(tagline_result, "\n")
        stripped == [i \in 1..Len(lines) |-> StripStr(lines[i])]
        B == {i \in 1..Len(lines) :
                /\ stripped[i] # <<>>
                /\ (IsDigit(stripped[i][1]) \/ stripped[i][1] \in {"-", "*"})}
        line == stripped[CHOOSE i \in B : \A j \in B : i <= j]
        numbered ==
            IF B = {} THEN <<>>
            ELSE IF "." \in Range(line) /\ IsDigit(line[1])
                 THEN StripStr(AfterFirst(line, "."))
                 ELSE StripStr(LStripChars(line,
                                  Range(Digits) \cup {".", "-", "*", " "}))
        N == {i \in 1..Len(lines) : stripped[i] # <<>>}
        nonempty ==
            IF numbered # <<>> THEN numbered
            ELSE IF N = {} THEN <<>>
            ELSE stripped[CHOOSE i \in N : \A j \in N : i <= j]
    IN  IF nonempty # <<>> THEN nonempty
        ELSE IF Len(tagline_result) > 50
             THEN Take(tagline_result, 50) \o <<".", ".", ".">>
             ELSE tagline_result

\* the tests of lines 292, 307, 350 and 364
NeedsWhateverTheName(s, element) == ~Truthy(s[element])
Needs(s, element) ==
    ~Truthy(s[element]) /\ (element = "brand_name" \/ Truthy(s.brand_name))

\* lines 292-304
CompleteBrandName ==
    /\ ebc_pc = "name"
    /\ IF Needs(session, "brand_name")
       THEN \E raw_output \in NameOutputs :
                LET names == generate_brand_names(raw_output)
                IN  IF names # <<>>
                    THEN /\ session' =
                              [session EXCEPT !.history.brand_names = @ \o names,
                                              !.brand_name = names[1],
                                              !.version = @ + 1]
                         /\ generated' = TRUE
                    ELSE UNCHANGED <<session, generated>>
       ELSE UNCHANGED <<session, generated>>
    /\ ebc_pc' = "tagline"
    /\ UNCHANGED <<session_at_call, ebc_result, stored>>
    /\ UNCHANGED <<frame, peer, running, chat_history, chat_calls, keyword_state,
                   auth_state, endpoint_calls>>

\* lines 307-347
CompleteTagline ==
    /\ ebc_pc = "tagline"
    /\ IF Needs(session, "tagline")
       THEN \E tagline_result \in TaglineOutputs :
                /\ session' =
                      [session EXCEPT !.history.taglines = Append(@, tagline_result),
                                      !.tagline = FirstTagline(tagline_result),
                                      !.version = @ + 1]
                /\ generated' = TRUE
       ELSE UNCHANGED <<session, generated>>
    /\ ebc_pc' = "logo"
    /\ UNCHANGED <<session_at_call, ebc_result, stored>>
    /\ UNCHANGED <<frame, peer, running, chat_history, chat_calls, keyword_state,
                   auth_state, endpoint_calls>>

\* lines 350-361
CompleteLogoPrompt ==
    /\ ebc_pc = "logo"
    /\ IF Needs(session, "logo_prompt")
       THEN \E logo_prompt \in LogoOutputs :
                /\ session' =
                      [session EXCEPT !.history.logo_prompts = Append(@, logo_prompt),
                                      !.logo_prompt = logo_prompt,
                                      !.version = @ + 1]
                /\ generated' = TRUE
       ELSE UNCHANGED <<session, generated>>
    /\ ebc_pc' = "palette"
    /\ UNCHANGED <<session_at_call, ebc_result, stored>>
    /\ UNCHANGED <<frame, peer, running, chat_history, chat_calls, keyword_state,
                   auth_state, endpoint_calls>>

\* lines 364-379
CompleteColorPalette ==
    /\ ebc_pc = "palette"
    /\ IF Needs(session, "color_palette")
       THEN \E raw_output \in PaletteOutputs :
                LET palette_result == get_color_palette(raw_output)
                IN  /\ session' =
                          [session EXCEPT
                              !.history.color_palettes =
                                  Append(@, palette_result.full_description),
                              !.color_palette = palette_result.full_description,
                              !.color_palette_hex = palette_result.hex_codes,
                              !.color_palette_primary = palette_result.primary,
                              !.color_palette_secondary = palette_result.secondary,
                              !.version = @ + 1]
                    /\ generated' = TRUE
       ELSE UNCHANGED <<session, generated>>
    /\ ebc_pc' = "save"
    /\ UNCHANGED <<session_at_call, ebc_result, stored>>
    /\ UNCHANGED <<frame, peer, running, chat_history, chat_calls, keyword_state,
                   auth_state, endpoint_calls>>

\* lines 381-384
SaveAndReturn ==
    /\ ebc_pc = "save"
    /\ stored' = IF generated THEN session ELSE stored
    /\ ebc_result' = <<generated>>
    /\ ebc_pc' = "returned"
    /\ UNCHANGED <<session, session_at_call, generated>>
    /\ UNCHANGED <<frame, peer, running, chat_history, chat_calls, keyword_state,
                   auth_state, endpoint_calls>>

\* the API call of the generator that the step is about to make fails: the
\* exception leaves ensure_brand_completeness, which has no try statement
ElementOfStep ==
    [name |-> "brand_name", tagline |-> "tagline", logo |-> "logo_prompt",
     palette |-> "color_palette"]
GeneratorRaises ==
    /\ ebc_pc \in DOMAIN ElementOfStep
    /\ Needs(session, ElementOfStep[ebc_pc])
    /\ ebc_pc' = "raised"
    /\ UNCHANGED <<session, session_at_call, generated, ebc_result, stored>>
    /\ UNCHANGED <<frame, peer, running, chat_history, chat_calls, keyword_state,
                   auth_state, endpoint_calls>>

\* The sessions a call may find: every element is missing, or was set by
\* the endpoint that generates it, which also counts a version and keeps
\* the history.
Preset ==
    [brand_name |-> <<"Z","e","n">>, tagline |-> <<"G","o">>,
     logo_prompt |-> <<"A"," ","z">>, color_palette |-> <<"#","0","0","0">>]
HistoryOf ==
    [brand_name |-> "brand_names", tagline |-> "taglines",
     logo_prompt |-> "logo_prompts", color_palette |-> "color_palettes"]
Elements == DOMAIN HistoryOf
SessionAfter(set) ==
    [NewSession EXCEPT
        !.brand_name = IF "brand_name" \in set THEN Preset.brand_name ELSE None,
        !.tagline = IF "tagline" \in set THEN Preset.tagline ELSE None,
        !.logo_prompt = IF "logo_prompt" \in set THEN Preset.logo_prompt ELSE None,
        !.color_palette =
            IF "color_palette" \in set THEN Preset.color_palette ELSE None,
        !.color_palette_hex =
            IF "color_palette" \in set
            THEN get_color_palette(Preset.color_palette).hex_codes ELSE None,
        !.color_palette_primary =
            IF "color_palette" \in set
            THEN get_color_palette(Preset.color_palette).primary ELSE None,
        !.version = 1 + Cardinality(set),
        !.history =
            [h \in DOMAIN NewSession.history |->
                IF \E e \in set : HistoryOf[e] = h
                THEN << Preset[CHOOSE e \in set : HistoryOf[e] = h] >>
                ELSE <<>>]]

\* The endpoints of the other elements ask for a brand name (lines 717,
\* 784, ...), so a session with one of them and without a brand name had
\* a name when the element was generated, and /api/generate-brand has
\* since taken an answer whose first name is the empty string (line 561).
SessionWith(set) ==
    IF "brand_name" \in set \/ set = {} THEN SessionAfter(set)
    ELSE [SessionAfter(set \cup {"brand_name"}) EXCEPT
             !.brand_name = <<>>,
             !.history.brand_names = Append(@, <<>>),
             !.version = @ + 1]

BrandInit ==
    /\ CallInit(0, 1)
    /\ start_url = SeedUrl
    /\ hash_seed = 0
    /\ peer = <<>>
    /\ running = 1
    /\ NoChat
    /\ NoKeywords
    /\ \E set \in SUBSET Elements : session = SessionWith(set)
    /\ session_at_call = session
    /\ stored = session
    /\ ebc_pc = "name"
    /\ generated = FALSE
    /\ ebc_result = <<>>
    /\ endpoint_calls = <<>>
    /\ NoAuth

BrandNext ==
    \/ CompleteBrandName
    \/ CompleteTagline
    \/ CompleteLogoPrompt
    \/ CompleteColorPalette
    \/ SaveAndReturn
    \/ GeneratorRaises

BrandSpec == BrandInit /\ [][BrandNext]_vars

(* ------------------------- the session endpoints ------------------------ *)
\* generate_logo_from_session (main.py, lines 593-634) and
\* color_palette_from_session (lines 636-679).  `lookup` is what the lines
\* before the brand-name test find: the authorization is refused, the
\* user has no brand session, the session is not in brand_sessions, or it
\* is `session`.
Lookups == {"unauthorized", "no_session_id", "not_found", "session"}

\* generate_logo_image: the image in base64, or the text of the error
ImageOutputs == {"aW1n", "Error: busy"}

\* what the endpoints return before they look at the session
LookupError(lookup) ==
    IF lookup = "unauthorized" THEN [raised |-> 401]
    ELSE IF lookup = "no_session_id"
    THEN [error |-> "No active brand session. Please complete intake first."]
    ELSE [error |-> "Brand session not found"]

\* not session.get("brand_name")
BrandNameIsNone(s) == s.brand_name = None
BrandNameMissing(s) == ~Truthy(s.brand_name)

EndpointCalled(endpoint, lookup, retry, result) ==
    endpoint_calls' =
        Append(endpoint_calls,
               [endpoint |-> endpoint, lookup |-> lookup, retry |-> retry,
                before |-> session, after |-> session', result |-> result])

\* /api/generate-logo.  The prompt generator or the image generator may
\* raise; the session is saved before the image is generated.
GenerateLogoFromSession ==
    /\ Len(endpoint_calls) < EndpointCallsBound
    /\ \E lookup \in Lookups, retry \in BOOLEAN :
          IF lookup # "session"
          THEN /\ UNCHANGED <<session, stored>>
               /\ EndpointCalled("generate-logo", lookup, retry, LookupError(lookup))
          ELSE IF BrandNameMissing(session)
          THEN /\ UNCHANGED <<session, stored>>
               /\ EndpointCalled("generate-logo", lookup, retry,
                                 [error |-> "Generate brand name first"])
          ELSE \/ /\ UNCHANGED <<session, stored>>
                  /\ EndpointCalled("generate-logo", lookup, retry, [raised |-> 500])
               \/ \E logo_prompt \in LogoOutputs :
                      LET prompted ==
                              [session EXCEPT
                                  !.history.logo_prompts = Append(@, logo_prompt),
                                  !.logo_prompt = logo_prompt,
                                  !.version = @ + 1]
                      IN  \/ /\ session' = prompted
                             /\ stored' = prompted
                             /\ EndpointCalled("generate-logo", lookup, retry,
                                               [raised |-> 500])
                          \/ \E image_base64 \in ImageOutputs :
                                /\ session' =
                                      [prompted EXCEPT !.logo_image = image_base64]
                                /\ stored' = session'
                                /\ EndpointCalled("generate-logo", lookup, retry,
                                      [brand_name |-> session.brand_name,
                                       logo_prompt |-> logo_prompt,
                                       image_base64 |-> image_base64,
                                       version |-> session.version + 1])
    /\ UNCHANGED <<session_at_call, ebc_pc, generated, ebc_result>>
    /\ UNCHANGED <<frame, peer, running, chat_history, chat_calls, keyword_state,
                   auth_state>>

\* /api/get-colors-from-session
ColorPaletteFromSession ==
    /\ Len(endpoint_calls) < EndpointCallsBound
    /\ \E lookup \in Lookups, retry \in BOOLEAN :
          IF lookup # "session"
          THEN /\ UNCHANGED <<session, stored>>
               /\ EndpointCalled("get-colors-from-session", lookup, retry,
                                 LookupError(lookup))
          ELSE IF BrandNameMissing(session)
          THEN /\ UNCHANGED <<session, stored>>
               /\ EndpointCalled("get-colors-from-session", lookup, retry,
                                 [error |-> "Generate brand name first"])
          ELSE \/ /\ UNCHANGED <<session, stored>>
                  /\ EndpointCalled("get-colors-from-session", lookup, retry,
                                    [raised |-> 500])
               \/ \E raw_output \in PaletteOutputs :
                      LET result == get_color_palette(raw_output)
                      IN  /\ session' =
                                [session EXCEPT
                                    !.history.color_palettes =
                                        Append(@, result.full_description),
                                    !.color_palette = result.full_description,
                                    !.color_palette_hex = result.hex_codes,
                                    !.color_palette_primary = result.primary,
                                    !.color_palette_secondary = result.secondary,
                                    !.version = @ + 1]
                          /\ stored' = session'
                          /\ EndpointCalled("get-colors-from-session", lookup, retry,
                                [brand_name |-> session.brand_name,
                                 palette |-> result.full_description,
                                 hex_codes |-> result.hex_codes,
                                 primary |-> result.primary,
                                 secondary |-> result.secondary,
                                 version |-> session.version + 1])
    /\ UNCHANGED <<session_at_call, ebc_pc, generated, ebc_result>>
    /\ UNCHANGED <<frame, peer, running, chat_history, chat_calls, keyword_state,
                   auth_state>>

\* the sessions the endpoints may find, as in BrandInit
EndpointInit ==
    /\ CallInit(0, 1)
    /\ start_url = SeedUrl
    /\ hash_seed = 0
    /\ peer = <<>>
    /\ running = 1
    /\ NoChat
    /\ NoKeywords
    /\ NoAuth
    /\ \E set \in SUBSET Elements : session = SessionWith(set)
    /\ session_at_call = session
    /\ stored = session
    /\ ebc_pc = "name"
    /\ generated = FALSE
    /\ ebc_result = <<>>
    /\ endpoint_calls = <<>>

EndpointNext == GenerateLogoFromSession \/ ColorPaletteFromSession

EndpointSpec == EndpointInit /\ [][EndpointNext]_vars

(* ------------------------------ the users ------------------------------ *)
\* auth_manager.py.  register_user and login_user read the whole users
\* file, change their copy and write the whole file back; the server runs
\* the endpoints that call them in worker threads (main.py, lines
\* 193-200, are plain `def` endpoints), so the steps of two calls
\* interleave.
Usernames == {"ann", "bob"}
Passwords == {"pw1", "pw2"}

\* str(uuid.uuid4()) and datetime.now().isoformat() in the call numbered i
\* (0 for what was there before the first call)
Uuid4(i) == <<"uuid4", i>>
Now(i) == <<"now", i>>

\* a users file written by earlier runs: ann has registered, logged in
\* and completed the intake
UsersBefore ==
    "ann" :> [password |-> "pw1", session_id |-> Uuid4(0),
              brand_session_id |-> <<"b", "s">>, created_at |-> Now(0),
              last_login |-> Now(0)]

\* load_users(): json.load raises on a file that is empty or is no JSON
CanLoad(file) == file[1] \in {"absent", "json"}
load_users(file) == IF file[1] = "json" THEN file[2] ELSE <<>>

\* username in users
NeverRegistered(users, username) == FALSE
Registered(users, username) == username \in DOMAIN users

\* the entry of lines 24-30
NewUser(password, i) ==
    [password |-> password, session_id |-> Uuid4(i), brand_session_id |-> None,
     created_at |-> Now(i), last_login |-> None]

Running(c) == c.pc \notin {"done", "raised"}

\* the server takes a request for /api/register or /api/login
AuthCall ==
    /\ Len(auth_calls) <
          (IF auth_threads = 1 THEN AuthCallsBound ELSE RaceCallsBound)
    /\ Cardinality({i \in 1..Len(auth_calls) : Running(auth_calls[i])})
          < auth_threads
    /\ \E fn \in {"register_user", "login_user"}, username \in Usernames,
          password \in Passwords :
          auth_calls' =
              Append(auth_calls,
                     [fn |-> fn, username |-> username, password |-> password,
                      pc |-> "load", users |-> <<>>, result |-> <<>>,
                      before |-> users_file, after |-> <<>>])
    /\ UNCHANGED <<users_file, auth_threads>>
    /\ UNCHANGED <<frame, peer, running, chat_history, chat_calls, keyword_state,
                   brand_state, endpoint_calls>>

\* the call has returned `result`, with the users file as it is
Returned(c, result) ==
    [c EXCEPT !.pc = "done", !.result = <<result>>, !.after = users_file]

\* register_user, lines 19-30: what the call is after load_users() and
\* the work on its copy
RegisterAfterLoad(c, i, users) ==
    IF Registered(users, c.username)
    THEN Returned(c, [error |-> "Username already exists"])
    ELSE [c EXCEPT !.pc = "open",
                   !.users = (c.username :> NewUser(c.password, i)) @@ users]

\* login_user, lines 36-44
LoginAfterLoad(c, i, users) ==
    IF c.username \notin DOMAIN users
    THEN Returned(c, [error |-> "User not found"])
    ELSE IF users[c.username].password # c.password
    THEN Returned(c, [error |-> "Invalid password"])
    ELSE [c EXCEPT !.pc = "open",
                   !.users = [users EXCEPT ![c.username].last_login = Now(i)]]

\* users = load_users() and the lines up to save_users or the return
LoadUsers ==
    \E i \in 1..Len(auth_calls) :
        /\ auth_calls[i].pc = "load"
        /\ auth_calls' =
              [auth_calls EXCEPT ![i] =
                  IF ~CanLoad(users_file) THEN [@ EXCEPT !.pc = "raised"]
                  ELSE IF @.fn = "register_user"
                  THEN RegisterAfterLoad(@, i, load_users(users_file))
                  ELSE LoginAfterLoad(@, i, load_users(users_file))]
        /\ UNCHANGED <<users_file, auth_threads>>
        /\ UNCHANGED <<frame, peer, running, chat_history, chat_calls,
                       keyword_state, brand_state, endpoint_calls>>

\* save_users: open(USERS_FILE, 'w') empties the file
OpenUsersFile ==
    \E i \in 1..Len(auth_calls) :
        /\ auth_calls[i].pc = "open"
        /\ users_file' = <<"empty">>
        /\ auth_calls' = [auth_calls EXCEPT ![i].pc = "dump"]
        /\ UNCHANGED auth_threads
        /\ UNCHANGED <<frame, peer, running, chat_history, chat_calls,
                       keyword_state, brand_state, endpoint_calls>>

\* save_users: json.dump and the close write the text from the start of
\* the file, and the call returns.  When another call has written the
\* file since the open, the text replaces as much of it as it is long:
\* the file is the call's JSON, or, if the other text was longer, the
\* call's JSON followed by the rest of the other, which is no JSON.
DumpUsers ==
    \E i \in 1..Len(auth_calls) :
        /\ auth_calls[i].pc = "dump"
        /\ users_file' \in
              IF users_file = <<"empty">>
              THEN {<<"json", auth_calls[i].users>>}
              ELSE {<<"json", auth_calls[i].users>>, <<"corrupt">>}
        /\ auth_calls' =
              [auth_calls EXCEPT ![i] =
                  [@ EXCEPT !.pc = "done",
                            !.result =
                                << [success |-> TRUE,
                                    session_id |->
                                        auth_calls[i].users[
                                            auth_calls[i].username].session_id] >>,
                            !.after = users_file']]
        /\ UNCHANGED auth_threads
        /\ UNCHANGED <<frame, peer, running, chat_history, chat_calls,
                       keyword_state, brand_state, endpoint_calls>>

\* calls made one at a time, on a new installation or on one with a user
AuthInit ==
    /\ CallInit(0, 1)
    /\ start_url = SeedUrl
    /\ hash_seed = 0
    /\ peer = <<>>
    /\ running = 1
    /\ NoChat
    /\ NoKeywords
    /\ NoBrand
    /\ users_file \in {<<"absent">>, <<"json", UsersBefore>>}
    /\ auth_calls = <<>>
    /\ auth_threads = 1

AuthNext == AuthCall \/ LoadUsers \/ OpenUsersFile \/ DumpUsers

AuthSpec == AuthInit /\ [][AuthNext]_vars

\* the same with two worker threads
RaceInit ==
    /\ CallInit(0, 1)
    /\ start_url = SeedUrl
    /\ hash_seed = 0
    /\ peer = <<>>
    /\ running = 1
    /\ NoChat
    /\ NoKeywords
    /\ NoBrand
    /\ users_file \in {<<"absent">>, <<"json", UsersBefore>>}
    /\ auth_calls = <<>>
    /\ auth_threads = 2

RaceSpec == RaceInit /\ [][AuthNext]_vars

(* ------------------------------- claims -------------------------------- *)
Done == pc = "done"
TheReport == returned[1]
Fetched == DOMAIN gets

\* C1: the returned pages_scraped is at most max_pages, and no GET is
\* issued once the visited set holds max_pages URLs.
C1_PageBudget ==
    /\ [](Done => TheReport.pages_scraped <= max_pages)
    /\ [][gets' # gets => Cardinality(visited) < max_pages]_vars

\* the page budget, not the frontier, ended a crawl of several pages
C1_Witness ==
    /\ Done
    /\ max_pages >= 2
    /\ TheReport.pages_scraped = max_pages
    /\ to_visit # <<>>

\* C2: in one crawl no URL is requested more than once.
C2_FetchedAtMostOnce == \A u \in Fetched : gets[u] <= 1

\* C3: when the GET of the seed fails, the returned value carries an
\* `error` field.
C3_SeedFailureFlagged ==
    (Done /\ start_url \in failed) => "error" \in DOMAIN TheReport

\* C4: a URL whose GET failed is in the visited set (and so is skipped when
\* it comes up again).
C4_FailedIsVisited == failed \subseteq visited

\* C5: a failed GET does not end the crawl: the step leaves the rest of the
\* frontier and the accumulators as they are and stays in the loop, the loop
\* ends only on an empty frontier or a spent page budget, and every page
\* fetched afterwards whose iteration completes is folded and counted.
C5_FailureDoesNotAbort ==
    /\ [][(gets' # gets /\ visited' = visited) =>
            /\ pc' = "loop"
            /\ to_visit' = Tail(to_visit)
            /\ UNCHANGED accumulators]_vars
    /\ [][(visited' # visited /\ pc' = "loop") =>
            /\ TLen(all_text') > TLen(all_text)
            /\ Cardinality(visited') = Cardinality(visited) + 1]_vars
    /\ [](Done => /\ to_visit = <<>> \/ Cardinality(visited) >= max_pages
                  /\ TheReport.pages_scraped = Cardinality(visited))

\* a page is fetched and folded after another GET of the crawl has failed
C5_Witness ==
    /\ last.op = "fetch_ok"
    /\ failed # {}
    /\ last.url \notin failed

\* C6: every visited URL was enqueued with a depth of at most max_depth.
C6_VisitedWithinDepth == \A p \in visited_at : p[2] <= max_depth

\* a page at depth max_depth >= 1 with links is folded while the page
\* budget is not spent
C6_Witness ==
    /\ last.op = "fetch_ok"
    /\ max_depth >= 1
    /\ last.depth = max_depth
    /\ last.links # <<>>
    /\ Cardinality(visited) < max_pages

\* C7: no link with a host other than the seed's host is on the frontier,
\* and every requested URL other than the seed has the seed's host.
C7_SameHostOnly ==
    /\ \A i \in 1..Len(to_visit) :
          to_visit[i][2] > 0 => Netloc(to_visit[i][1]) = Netloc(start_url)
    /\ \A u \in Fetched \ {start_url} : Netloc(u) = Netloc(start_url)

\* a page above the depth limit links to a subdomain of the seed's host
C7_Witness ==
    /\ last.op = "fetch_ok"
    /\ last.depth < max_depth
    /\ \E l \in Range(last.links) :
          /\ Netloc(l) # Netloc(start_url)
          /\ SameHostOrSubdomain(l, Netloc(start_url))

\* C8: no discovered link whose lowercased URL contains an exclusion term
\* is on the frontier.
C8_ExcludedNeverEnqueued ==
    \A i \in 1..Len(to_visit) :
        to_visit[i][2] > 0 => ~ContainsAny(Lower(to_visit[i][1]), SkipTerms)

\* a page above the depth limit links to a same-host URL that has an
\* exclusion term in capitals
C8_Witness ==
    /\ last.op = "fetch_ok"
    /\ last.depth < max_depth
    /\ \E l \in Range(last.links) :
          /\ Netloc(l) = Netloc(start_url)
          /\ ContainsAny(Lower(l), SkipTerms)
          /\ ~ContainsAny(l, SkipTerms)

\* C9: in every returned report |detected_colors| <= 8, |ctas| <= 10,
\* |product_links| <= 10, |top_keywords| <= 20, |headings| <= 15 and
\* len(text_sample) <= 3000.
C9_ReportCaps ==
    Done =>
        /\ Cardinality(TheReport.detected_colors) <= 8
        /\ Cardinality(TheReport.ctas) <= 10
        /\ Cardinality(TheReport.product_links) <= 10
        /\ Len(TheReport.top_keywords) <= 20
        /\ Len(TheReport.headings) <= 15
        /\ TLen(TheReport.text_sample) <= 3000

\* a report is returned after more than each cap was collected
C9_Witness ==
    /\ Done
    /\ Cardinality(all_colors) > 8
    /\ Cardinality(all_ctas) > 10
    /\ Cardinality(all_product_links) > 10
    /\ Len(CounterKeys(FilteredWords(all_text))) > 20
    /\ Len(all_headings) > 15
    /\ TLen(all_text) > 3000

\* C10: at completion pages_scraped is the number of URLs requested in the
\* crawl, successfully or not.
C10_PagesScrapedCountsFetched ==
    Done => TheReport.pages_scraped = Cardinality(Fetched)

\* C11: the crawl terminates: on a site whose pages link back to the seed,
\* to themselves and to each other, with every GET returning or failing,
\* the loop eventually exits, and when the function returns the frontier
\* is empty or the visited set is at max_pages.
C11_Terminates ==
    /\ <>(pc # "loop")
    /\ [](Done => (to_visit = <<>> \/ Cardinality(visited) >= max_pages))

\* a crawl of several pages, one of whose GETs failed, has returned on an
\* empty frontier with page budget left
C11_Witness ==
    /\ Done
    /\ to_visit = <<>>
    /\ Cardinality(visited) >= 2
    /\ Cardinality(visited) < max_pages
    /\ failed # {}

\* C12: with max_depth = 1, no failed GET and max_pages >= k + 1, where k
\* is the number of distinct links of the seed page that have the seed's
\* host, hold no exclusion term and are not the seed, the crawl visits
\* exactly the seed and those k URLs and reports pages_scraped = k + 1.
C12_SeedAndItsLinksVisited ==
    (Done /\ max_depth = 1 /\ failed = {}) =>
        \A p \in visited_at :
            LET K == {l \in Range(p[3]) :
                        /\ Netloc(l) = Netloc(start_url)
                        /\ ~ContainsAny(Lower(l), SkipTerms)
                        /\ l # start_url}
            IN  (p[2] = 0 /\ max_pages >= Cardinality(K) + 1) =>
                    /\ visited = {start_url} \cup K
                    /\ TheReport.pages_scraped = Cardinality(K) + 1

\* the spec's case: a seed page with 3 such links (one of them repeated,
\* next to links that do not qualify) was crawled with max_depth = 1 and a
\* page budget of 4, and no GET failed
C12_Witness ==
    /\ Done
    /\ max_depth = 1
    /\ failed = {}
    /\ TheReport.pages_scraped = 4
    /\ \E p \in visited_at :
          /\ p[2] = 0
          /\ Len(p[3]) > 4
          /\ Cardinality({l \in Range(p[3]) :
                            /\ Netloc(l) = Netloc(start_url)
                            /\ ~ContainsAny(Lower(l), SkipTerms)
                            /\ l # start_url}) = 3

\* C13: the frontier is a FIFO queue read breadth first: every iteration
\* takes the head of the frontier and leaves the rest in place, new targets
\* going to the back; the first target is the seed at depth 0; the depth of
\* the target taken never decreases from one iteration to the next (so
\* neither does the depth of the pages fetched); and a page is folded in
\* the iteration that fetches it, before the next target is taken.
IsIteration(l) == l.op \in {"skip", "fetch_fail", "fetch_ok", "fetch_raise"}

C13_BreadthFirst ==
    /\ [][IsIteration(last') =>
            /\ <<last'.url, last'.depth>> = Head(to_visit)
            /\ Len(to_visit') >= Len(to_visit) - 1
            /\ SubSeq(to_visit', 1, Len(to_visit) - 1) = Tail(to_visit)
            /\ \A i \in Len(to_visit)..Len(to_visit') :
                  to_visit'[i][2] = last'.depth + 1]_vars
    /\ [][(last.op = "call" /\ IsIteration(last')) =>
            (last'.url = start_url /\ last'.depth = 0)]_vars
    /\ [][(IsIteration(last) /\ IsIteration(last')) =>
            last'.depth >= last.depth]_vars
    /\ [][gets' # gets =>
            \/ last'.op = "fetch_fail" /\ UNCHANGED <<visited, accumulators>>
            \/ last'.op = "fetch_raise" /\ pc' = "raised"
            \/ /\ last'.op = "fetch_ok"
               /\ visited' = visited \cup {last'.url}
               /\ last'.url \notin visited
               /\ all_text' # all_text]_vars

\* a page of depth 1 or more has been fetched while the frontier holds
\* targets of its depth, found earlier, before targets one level deeper
C13_Witness ==
    /\ last.op = "fetch_ok"
    /\ last.depth >= 1
    /\ Len(to_visit) >= 2
    /\ to_visit[1][2] = last.depth
    /\ to_visit[Len(to_visit)][2] = last.depth + 1

\* C14: the report does not depend on the process that runs the crawl: a
\* crawl of the same site with the same arguments and the same responses
\* returns the report that was returned, whatever the string hash seed of
\* its process, down to the colors, CTAs and product links that survive
\* the caps.
C14_SameReportInAnyProcess ==
    Done => \A seed \in HashSeeds : ReportIn(seed) = TheReport

\* C15: every returned report is a record with exactly the fields
\* pages_scraped, top_keywords, headings, detected_colors, ctas,
\* product_links and text_sample, and every key the consumer's prompt
\* reads is among them.
C15_ReportFields ==
    Done =>
        /\ DOMAIN TheReport =
              {"pages_scraped", "top_keywords", "headings", "detected_colors",
               "ctas", "product_links", "text_sample"}
        /\ PromptFields \subseteq DOMAIN TheReport

\* the report of a crawl that fetched nothing, its only GET having failed
C15_Witness ==
    /\ Done
    /\ start_url \in failed
    /\ TheReport.pages_scraped = 0
    /\ TheReport.text_sample = <<>>

\* C16: for a seed URL without a scheme or without a host the call does
\* not raise: it requests the seed, and once that has failed it returns a
\* report with pages_scraped = 0 and every collection empty.
C16_MalformedSeedGivesEmptyReport ==
    (UrlSplit(start_url).scheme = <<>> \/ Netloc(start_url) = <<>>) =>
        /\ pc # "raised"
        /\ Done =>
              /\ start_url \in Fetched
              /\ TheReport.pages_scraped = 0
              /\ TheReport.top_keywords = <<>>
              /\ TheReport.headings = <<>>
              /\ TheReport.detected_colors = {}
              /\ TheReport.ctas = {}
              /\ TheReport.product_links = {}
              /\ TheReport.text_sample = <<>>

\* C17: once a GET has succeeded, nothing that goes wrong while the page is
\* processed leaves analyze_competitor_site as an exception.
C17_NoErrorEscapes == last.op \in {"fetch_ok", "fetch_raise"} => pc # "raised"

C19_ChatHistoryLimited ==
    /\ Len(chat_history) <= 7
    /\ Len(recent_history(chat_history)) <= 7

\* four calls have returned, so 8 messages were appended, and the history
\* holds the last exchanges only
C19_Witness ==
    /\ chat_calls >= 4
    /\ Len(chat_history) = HistoryCap
    /\ chat_history[1].role = "user"
    /\ chat_history[Len(chat_history)].role = "assistant"

\* C20: an iteration whose popped head has a depth over max_depth or a URL
\* in the visited set requests nothing and leaves the visited set, the page
\* count and every accumulator as they are; only the frontier changes, by
\* losing its head.
C20_SkipChangesOnlyFrontier ==
    [][(/\ pc = "loop"
        /\ to_visit # <<>>
        /\ Cardinality(visited) < max_pages
        /\ (Head(to_visit)[2] > max_depth \/ Head(to_visit)[1] \in visited)) =>
            /\ gets' = gets
            /\ failed' = failed
            /\ visited' = visited
            /\ Cardinality(visited') = Cardinality(visited)
            /\ UNCHANGED accumulators
            /\ to_visit' = Tail(to_visit)
            /\ pc' = "loop"]_vars

\* an entry of the frontier was skipped because its URL had been visited by
\* the time it was popped, with pages folded and targets still waiting
C20_Witness ==
    /\ last.op = "skip"
    /\ last.url \in visited
    /\ last.depth <= max_depth
    /\ all_text # <<>>
    /\ to_visit # <<>>

\* C21: no entry of the frontier has a depth over max_depth (max_depth >= 0
\* in every call): the links of a page at depth max_depth are dropped at
\* line 108, before they are enqueued.  So the depth test of line 69 is
\* never what makes an iteration skip: a skipped target has a depth within
\* max_depth and a visited URL.
C21_FrontierWithinDepth ==
    /\ max_depth >= 0
    /\ \A i \in 1..Len(to_visit) : to_visit[i][2] <= max_depth
    /\ last.op = "skip" => (last.depth <= max_depth /\ last.url \in visited)

\* a page at depth max_depth was folded with page budget left, and one of
\* its links has the seed's host, no exclusion term and is not visited:
\* only its depth keeps it off the frontier
C21_Witness ==
    /\ last.op = "fetch_ok"
    /\ last.depth = max_depth
    /\ Cardinality(visited) < max_pages
    /\ \E l \in Range(last.links) :
          /\ SameHost(l, domain)
          /\ ~IsSkipped(l)
          /\ l \notin visited
          /\ \A i \in 1..Len(to_visit) : to_visit[i][1] # l

\* C22: every scraped page adds one separator and at most the first 1500
\* characters of its cleaned text to the text buffer, whatever its size:
\* after n pages the buffer holds at most n * 1501 characters.
C22_TextBufferBound == TLen(all_text) <= Cardinality(visited) * 1501

\* two pages were folded, each with more than 1500 characters of cleaned
\* text, and the buffer is at the bound
C22_Witness ==
    /\ Cardinality(visited) >= 2
    /\ TLen(all_text) = Cardinality(visited) * 1501
    /\ \A p \in visited_at :
          TLen(clean_text(GetText(Decompose(p[4])))) > PageTextCap

\* what a visited page holds: the distinct colors of its source, the
\* distinct CTA texts of its stripped document, its distinct product links
DocColors == [d \in Bodies |-> FindColors(HtmlSource(d))] @@ <<>>
DocCtas == [d \in Bodies |-> CtaTexts(Decompose(d))] @@ <<>>
PageColors(p) == DocColors[p[4]]
PageCtas(p) == DocCtas[p[4]]
PageProducts(p) == ProductLinks(p[3])

Least(a, b) == IF a < b THEN a ELSE b

\* C23 as stated: no cap is applied per page, so every distinct color, CTA
\* text and product link found on a scraped page is in the accumulated
\* collection the report takes its entries from.
C23_NoPerPageCap ==
    pc # "raised" =>
        \A p \in visited_at :
            /\ PageColors(p) \subseteq all_colors
            /\ PageCtas(p) \subseteq all_ctas
            /\ PageProducts(p) \subseteq all_product_links

\* C23 as amended: the accumulated collections hold nothing but values
\* found on the scraped pages, and of every scraped page all its distinct
\* colors, CTA texts and product links when it has at most 15 / 10 / 10 of
\* them, and at least 15 / 10 / 10 of them otherwise; the report takes its
\* 8 / 10 / 10 entries from these collections.
C23_PerPageCapThenUnion ==
    pc # "raised" =>
        /\ \A p \in visited_at :
              /\ Cardinality(PageColors(p) \cap all_colors)
                    >= Least(Cardinality(PageColors(p)), 15)
              /\ Cardinality(PageCtas(p) \cap all_ctas)
                    >= Least(Cardinality(PageCtas(p)), 10)
              /\ Cardinality(PageProducts(p) \cap all_product_links)
                    >= Least(Cardinality(PageProducts(p)), 10)
        /\ all_colors \subseteq UNION {PageColors(p) : p \in visited_at}
        /\ all_ctas \subseteq UNION {PageCtas(p) : p \in visited_at}
        /\ all_product_links \subseteq UNION {PageProducts(p) : p \in visited_at}
        /\ Done =>
              /\ TheReport.detected_colors \subseteq all_colors
              /\ TheReport.ctas \subseteq all_ctas
              /\ TheReport.product_links \subseteq all_product_links
              /\ Cardinality(TheReport.detected_colors)
                    = Least(Cardinality(all_colors), 8)
              /\ Cardinality(TheReport.ctas) = Least(Cardinality(all_ctas), 10)
              /\ Cardinality(TheReport.product_links)
                    = Least(Cardinality(all_product_links), 10)

\* a page with more than 10 distinct product links was folded, and another
\* page whose colors, CTAs and product links it does not have
C23_Witness ==
    /\ pc # "raised"
    /\ \E p, q \in visited_at :
          /\ Cardinality(PageProducts(p)) > 10
          /\ ~(PageProducts(p) \subseteq all_product_links)
          /\ ~(PageColors(q) \subseteq PageColors(p))
          /\ ~(PageCtas(q) \subseteq PageCtas(p))
          /\ ~(PageProducts(q) \subseteq PageProducts(p))
          /\ PageProducts(q) \subseteq all_product_links

NoRepeat(l) == Cardinality(Range(l)) = Len(l)

\* C24: on every page the crawl folds, each per-page extractor returns a
\* list without repeated values and within its cap: at most 15 colors, at
\* most 10 CTA texts, at most 10 product links; and these are the values
\* the crawl accumulates for the page.
C24_ExtractorsCappedAndDistinct ==
    last.op = "fetch_ok" =>
        \A p \in {q \in visited_at : q[1] = last.url} :
            LET colors == ColorList(HtmlSource(p[4]), hash_seed)
                ctas == CtaList(Decompose(p[4]), hash_seed)
                product_links == ProductList(p[3], hash_seed)
            IN  /\ NoRepeat(colors) /\ Len(colors) <= 15
                /\ NoRepeat(ctas) /\ Len(ctas) <= 10
                /\ NoRepeat(product_links) /\ Len(product_links) <= 10
                /\ Range(colors) = extract_colors_from_css(HtmlSource(p[4]), hash_seed)
                /\ Range(ctas) = detect_ctas(Decompose(p[4]), hash_seed)
                /\ Range(product_links) = detect_product_links(p[3], hash_seed)

\* the crawl has folded a page with more than 15 distinct colors, one with
\* more than 10 distinct CTA texts and one with more than 10 distinct
\* product links, each with a value that occurs twice on the page
C24_Witness ==
    /\ pc = "loop"
    /\ \E p \in visited_at :
          /\ Cardinality(PageColors(p)) > 15
          /\ ~NoRepeat(ColorMatches(HtmlSource(p[4])))
    /\ \E p \in visited_at :
          /\ Cardinality(PageCtas(p)) > 10
          /\ ~NoRepeat(CtaMatches(Decompose(p[4])))
    /\ \E p \in visited_at :
          /\ Cardinality(PageProducts(p)) > 10
          /\ ~NoRepeat(ProductMatches(p[3]))

\* C25: keywords are extracted once per crawl, when the loop has ended: no
\* result exists while the loop runs, and the top_keywords of the report
\* are those of the whole text buffer at the return, not of its first 3000
\* characters (the text_sample).
C25_KeywordsOfFullBuffer ==
    /\ returned # <<>> => Done
    /\ Done =>
          /\ TheReport.top_keywords = extract_keywords(all_text)
          /\ TheReport.text_sample = TTake(all_text, 3000)

\* a report whose top_keywords rank a word that the buffer holds beyond its
\* first 3000 characters only
C25_Witness ==
    /\ Done
    /\ TLen(all_text) > 3000
    /\ \E i \in 1..Len(TheReport.top_keywords) :
          /\ TheReport.top_keywords[i]
                \notin Range(FindWords(TLower(TheReport.text_sample)))
          /\ TheReport.top_keywords[i]
                \in Range(FindWords(TLower(all_text)))

TokenCounts(toks) ==
    [w \in Range(toks) |->
        Cardinality({i \in 1..Len(toks) : toks[i] = w})] @@ <<>>
TokenFirsts(toks) ==
    [w \in Range(toks) |->
        CHOOSE i \in 1..Len(toks) :
            toks[i] = w /\ \A j \in 1..(i - 1) : toks[j] # w] @@ <<>>
RankedBefore(cnt, first, v, w) ==
    cnt[v] > cnt[w] \/ (cnt[v] = cnt[w] /\ first[v] < first[w])

\* C27: extract_keywords returns the 20 most frequent tokens of the text
\* (all of them when there are fewer), by descending count and, at equal
\* counts, in the order of their first occurrence; every returned token is
\* made of at least 4 lowercase letters and is not a stop word.
C27_KeywordRanking ==
    kw_runs # <<>> =>
        LET toks == Tabulate(FilteredWords(kw_text))
            tokens == Range(toks)
            cnt == TokenCounts(toks)
            first == TokenFirsts(toks)
        IN  \A r \in 1..Len(kw_runs) :
                LET K == kw_runs[r].keywords
                IN  /\ Len(K) = Least(20, Cardinality(tokens))
                    /\ Range(K) \subseteq tokens
                    /\ \A i, j \in 1..Len(K) :
                          i < j => RankedBefore(cnt, first, K[i], K[j])
                    /\ \A w \in tokens \ Range(K) :
                          \A i \in 1..Len(K) : RankedBefore(cnt, first, K[i], w)
                    /\ \A i \in 1..Len(K) :
                          /\ TLen(K[i]) >= 4
                          /\ \A k \in 1..Len(K[i]) : InSeq(K[i][k][1], LowerLetters)
                          /\ \A k \in 1..Len(StopWords) :
                                Expand(K[i], TLen(K[i])) # StopWords[k]

\* extract_keywords has ranked a text of more than 20 distinct tokens that
\* holds a stop word and words in capitals: a token met later in the text
\* is ranked first for its count, tokens of equal count follow, and one
\* token is left out
C27_Witness ==
    /\ kw_runs # <<>>
    /\ Cardinality(Range(FilteredWords(kw_text))) > 20
    /\ \E k \in 1..Len(StopWords) :
          Runs(StopWords[k]) \in Range(FindWords(TLower(kw_text)))
    /\ TLower(kw_text) # kw_text
    /\ LET K == kw_runs[1].keywords
           toks == Tabulate(FilteredWords(kw_text))
           cnt == TokenCounts(toks)
           first == TokenFirsts(toks)
       IN  /\ cnt[K[1]] > cnt[K[2]]
           /\ first[K[1]] > first[K[2]]
           /\ cnt[K[2]] = cnt[K[3]]

IsStripped(e) == e.tag \in StrippedTags \/ e.within \in StrippedTags

\* the elements of the served documents that the crawl strips, and those it
\* keeps
StrippedElements ==
    UNION {{d[i] : i \in {k \in 1..Len(d) : IsStripped(d[k])}} : d \in Bodies}
KeptElements ==
    UNION {{d[i] : i \in {k \in 1..Len(d) : ~IsStripped(d[k])}} : d \in Bodies}

\* the tokens and the heading texts that the documents hold in stripped
\* elements only
StrippedOnlyTokens ==
    UNION {Range(FilteredWords(e.text)) : e \in StrippedElements}
        \ UNION {Range(FilteredWords(e.text)) : e \in KeptElements}
StrippedOnlyHeadings ==
    {StrippedText(e) : e \in {x \in StrippedElements : x.tag \in {"h1", "h2"}}}
        \ {StrippedText(e) : e \in KeptElements}

\* what C28 says of the anchors of the last page folded that sit in the
\* elements `where` or in no stripped element: the link of each is among
\* the links of the page, and on the frontier when it passes the depth,
\* host, visited and exclusion tests
AnchorsYieldLinks(where) ==
    last.op = "fetch_ok" =>
        \A p \in {q \in visited_at : q[1] = last.url} :
            \A i \in {k \in 1..Len(p[4]) :
                        /\ p[4][k].tag = "a" /\ p[4][k].href # <<>>
                        /\ p[4][k].within \in where \cup {""}} :
                LET link == UrlJoin(last.url, p[4][i].href[1])
                IN  /\ link \in Range(last.links)
                    /\ (/\ last.depth < max_depth
                        /\ Netloc(link) = Netloc(start_url)
                        /\ link \notin visited
                        /\ ~ContainsAny(Lower(link), SkipTerms))
                          => <<link, last.depth + 1>> \in Range(to_visit)

\* and of what is stripped: the text and the headings of the stripped
\* elements reach neither the headings nor the text buffer, and so
\* neither the text_sample nor the keywords of the report
StrippedContentExcluded ==
    /\ Range(all_headings) \cap StrippedOnlyHeadings = {}
    /\ Done =>
          /\ Range(TheReport.headings) \cap StrippedOnlyHeadings = {}
          /\ Range(TheReport.top_keywords) \cap StrippedOnlyTokens = {}
          /\ Range(FilteredWords(all_text)) \cap StrippedOnlyTokens = {}
          /\ Range(FilteredWords(TheReport.text_sample)) \cap StrippedOnlyTokens = {}

\* C28 as stated: an anchor inside a nav, footer, script or style element
\* yields a link like any other anchor, and the content of these elements
\* is excluded.
C28_LinksBeforeStripping ==
    /\ AnchorsYieldLinks({"nav", "footer", "script", "style"})
    /\ StrippedContentExcluded

\* C28 as amended: an anchor inside a nav or footer element yields a link
\* like any other anchor; anchor markup inside a script or style element
\* is text to the parser and adds no link; the content of all four kinds
\* of element is excluded.
C28_NavAndFooterLinksKept ==
    /\ AnchorsYieldLinks({"nav", "footer"})
    /\ StrippedContentExcluded
    /\ last.op = "fetch_ok" =>
          \A p \in {q \in visited_at : q[1] = last.url} :
              Len(last.links) =
                  Cardinality({k \in 1..Len(p[4]) :
                                  /\ p[4][k].tag = "a" /\ p[4][k].href # <<>>
                                  /\ p[4][k].within \notin {"script", "style"}})

\* a page was folded whose only anchor to some URL sits inside a nav element
\* and that URL is on the frontier, while the page's footer heading and the
\* words of its style sheet are among the stripped-only ones, and its
\* script holds the markup of an anchor
C28_Witness ==
    /\ last.op = "fetch_ok"
    /\ StrippedOnlyTokens # {}
    /\ \E p \in {q \in visited_at : q[1] = last.url} :
          /\ \E i \in 1..Len(p[4]) :
                /\ p[4][i].tag = "a"
                /\ p[4][i].within = "nav"
                /\ <<UrlJoin(last.url, p[4][i].href[1]), last.depth + 1>>
                      \in Range(to_visit)
                /\ \A k \in 1..Len(p[4]) :
                      (p[4][k].tag = "a" /\ p[4][k].href = p[4][i].href)
                          => p[4][k].within = "nav"
          /\ \E i \in 1..Len(p[4]) :
                /\ p[4][i].tag = "h2"
                /\ p[4][i].within = "footer"
                /\ StrippedText(p[4][i]) \in StrippedOnlyHeadings
          /\ \E i \in 1..Len(p[4]) :
                p[4][i].tag = "a" /\ p[4][i].within = "script"
          /\ \E i \in 1..Len(p[4]) :
                /\ p[4][i].tag = "style"
                /\ Range(FilteredWords(p[4][i].text)) \cap StrippedOnlyTokens # {}

\* the hex strings that the source of each document holds, as written
DocColorStrings == [d \in Bodies |-> Range(ColorMatches(HtmlSource(d)))] @@ <<>>

\* C29: the colors of the report are hex strings as the scraped pages
\* write them, each once however many pages hold it: as many entries as
\* there are distinct strings on the scraped pages, up to 8.  So the strings
\* of two pages with the same colors are reported once each, and strings
\* that differ in letter case only are distinct entries.
C29_ColorsByRawString ==
    Done =>
        LET found == UNION {DocColorStrings[p[4]] : p \in visited_at}
        IN  /\ TheReport.detected_colors \subseteq found
            /\ Cardinality(TheReport.detected_colors)
                  = Least(8, Cardinality(found))

\* two pages with the same document were scraped; the document holds fewer
\* than 8 distinct hex strings, two of which differ in case only, and the
\* report has each of the document's strings
C29_Witness ==
    /\ Done
    /\ Cardinality(visited_at) >= 2
    /\ \A p, q \in visited_at : p[4] = q[4]
    /\ \A p \in visited_at :
          /\ Cardinality(DocColorStrings[p[4]]) <= 8
          /\ TheReport.detected_colors = DocColorStrings[p[4]]
    /\ \E c, d \in TheReport.detected_colors : c # d /\ Lower(c) = Lower(d)

\* the elements that the call has generated so far: those whose history
\* has grown
Made ==
    {e \in Elements :
        session.history[HistoryOf[e]] # session_at_call.history[HistoryOf[e]]}

\* C30: ensure_brand_completeness leaves every element that is set as it
\* is; it generates a tagline, a logo prompt or a color palette only with a
\* brand name in the session (its own or the one it has just generated);
\* the version grows by one for every element generated; it returns True
\* exactly when it generated an element; and when the brand name is
\* missing and its generation gives no name, it returns False with the
\* session as it found it.
C30_CompletesOnlyWhatIsMissing ==
    /\ \A e \in Elements :
          Truthy(session_at_call[e]) =>
              (session[e] = session_at_call[e] /\ e \notin Made)
    /\ \A e \in Made \ {"brand_name"} : Truthy(session.brand_name)
    /\ session.version = session_at_call.version + Cardinality(Made)
    /\ ebc_pc = "returned" =>
          /\ ebc_result[1] = (Made # {})
          /\ (~Truthy(session_at_call.brand_name) /\ "brand_name" \notin Made) =>
                (ebc_result[1] = FALSE /\ session = session_at_call)

\* a call that found a tagline and no brand name has returned True: it
\* generated the name, the logo prompt and the palette, the version is 3
\* higher and the tagline is the one it found
C30_Witness ==
    /\ ebc_pc = "returned"
    /\ ebc_result = <<TRUE>>
    /\ Made = {"brand_name", "logo_prompt", "color_palette"}
    /\ session.tagline = Preset.tagline
    /\ session.version = session_at_call.version + 3
    /\ stored = session

\* a call whose brand-name generation gave no name has returned False,
\* with other elements missing
C30_WitnessNoName ==
    /\ ebc_pc = "returned"
    /\ ebc_result = <<FALSE>>
    /\ ~Truthy(session.brand_name)
    /\ ~Truthy(session.tagline)
    /\ session = session_at_call

\* C31: a URL that is in the visited set is neither requested nor folded
\* again; every fold is the fold of a URL that joins the visited set in
\* the same iteration, and every URL that joins it in an iteration that
\* completes is folded; so every visited URL was folded once, and
\* pages_scraped is the number of the URLs that were folded.
C31_FoldedExactlyOnce ==
    /\ [][(gets' # gets \/ accumulators' # accumulators) =>
            last'.url \notin visited]_vars
    /\ [][accumulators' # accumulators =>
            (visited' = visited \cup {last'.url} /\ gets' # gets)]_vars
    /\ [][(visited' # visited /\ pc' # "raised") =>
            all_text' # all_text]_vars
    /\ [](pc # "raised" =>
            \A u \in visited :
                Cardinality({p \in visited_at : p[1] = u}) = 1)
    /\ [](Done =>
            TheReport.pages_scraped = Cardinality({p[1] : p \in visited_at}))

\* a frontier entry within the depth budget was skipped because its URL
\* had been folded earlier in the crawl
C31_Witness ==
    /\ last.op = "skip"
    /\ last.depth <= max_depth
    /\ last.url \in visited
    /\ Cardinality(visited) >= 2
    /\ \E p \in visited_at : p[1] = last.url

\* the GETs the crawl has issued, failed ones included
Attempts ==
    LET RECURSIVE Sum(_)
        Sum(S) == IF S = {} THEN 0
                  ELSE LET u == CHOOSE x \in S : TRUE
                       IN  gets[u] + Sum(S \ {u})
    IN  Sum(DOMAIN gets)

\* C32: one crawl issues at most max_pages GETs, the failed ones counted.
C32_AttemptsWithinPageBudget == Attempts <= max_pages

\* the depths of the frontier entries, from head to tail
FrontierDepths == [i \in 1..Len(to_visit) |-> to_visit[i][2]]

\* C33: the depths of the frontier never decrease from head to tail and
\* differ by at most 1.
C33_FrontierOrderedByDepth ==
    /\ \A i, j \in 1..Len(to_visit) :
          i <= j => FrontierDepths[i] <= FrontierDepths[j]
    /\ \A i, j \in 1..Len(to_visit) :
          FrontierDepths[j] - FrontierDepths[i] \in {-1, 0, 1}

\* a frontier that holds entries of two depths and the same URL twice
C33_Witness ==
    /\ pc = "loop"
    /\ Range(FrontierDepths) = {1, 2}
    /\ \E i, j \in 1..Len(to_visit) : i < j /\ to_visit[i][1] = to_visit[j][1]

\* the links of a scraped page that hold a product hint
HintedLinks(p) == {l \in Range(p[3]) : ContainsAny(Lower(l), ProductHints)}

\* C34: the product links are taken from all links of the scraped pages:
\* whatever its host, its exclusion terms and the depth of its page, a
\* link with a product hint is collected (up to the cap of its page), and
\* every reported product link holds a product hint and is a link of a
\* scraped page.
C34_ProductLinksIgnoreEnqueueFilters ==
    /\ \A p \in visited_at :
          Cardinality(HintedLinks(p) \cap all_product_links)
              >= Least(Cardinality(HintedLinks(p)), PageProductCap)
    /\ Done =>
          \A l \in TheReport.product_links :
              /\ ContainsAny(Lower(l), ProductHints)
              /\ \E p \in visited_at : l \in Range(p[3])

\* a finished crawl with an empty frontier reports a product link of
\* another host, one with an exclusion term and one that it found only on
\* pages at depth max_depth, and requested none of them
C34_Witness ==
    /\ Done
    /\ to_visit = <<>>
    /\ \E l1, l2, l3 \in TheReport.product_links :
          /\ Netloc(l1) # domain
          /\ Netloc(l2) = domain /\ ContainsAny(Lower(l2), SkipTerms)
          /\ Netloc(l3) = domain /\ ~ContainsAny(Lower(l3), SkipTerms)
          /\ \A p \in visited_at : l3 \in Range(p[3]) => p[2] = max_depth
          /\ {l1, l2, l3} \cap (Fetched \cup visited) = {}

\* the anchors and buttons of a document inside a nav or footer element,
\* and the CTA texts of its anchors and buttons outside every stripped
\* element
NavOrFooterTags ==
    [d \in Bodies |->
        {d[i] : i \in {k \in 1..Len(d) : /\ d[k].tag \in {"a", "button"}
                                         /\ d[k].within \in {"nav", "footer"}}}]
        @@ <<>>
KeptTagTexts ==
    [d \in Bodies |->
        {TLower(StrippedText(d[i])) :
            i \in {k \in 1..Len(d) : /\ d[k].tag \in {"a", "button"}
                                     /\ ~IsStripped(d[k])}}] @@ <<>>

\* C35: the CTAs come from the anchors and buttons that are left after the
\* nav and footer elements are removed, so a text that the scraped pages
\* hold in nav or footer anchors only is no CTA; the href of such an
\* anchor is a link of its page all the same: it is on the frontier when
\* it passes the enqueue tests, and among the product links when it holds
\* a product hint and the cap of its page allows.
C35_CtasAfterStripping ==
    /\ all_ctas \subseteq UNION {KeptTagTexts[p[4]] : p \in visited_at}
    /\ Done => TheReport.ctas \subseteq UNION {KeptTagTexts[p[4]] : p \in visited_at}
    /\ AnchorsYieldLinks({"nav", "footer"})
    /\ \A p \in visited_at :
          \A e \in {x \in NavOrFooterTags[p[4]] : x.tag = "a" /\ x.href # <<>>} :
              LET link == UrlJoin(p[1], e.href[1])
              IN  (/\ ContainsAny(Lower(link), ProductHints)
                   /\ Cardinality(HintedLinks(p)) <= PageProductCap)
                      => link \in all_product_links

\* the page folded last holds, in a nav or footer element, an anchor with
\* a CTA phrase and a product link: the link is on the frontier and among
\* the product links, the text is not among the CTAs
C35_Witness ==
    /\ last.op = "fetch_ok"
    /\ all_ctas # {}
    /\ \E p \in {q \in visited_at : q[1] = last.url} :
          \E e \in NavOrFooterTags[p[4]] :
              /\ e.tag = "a" /\ e.href # <<>>
              /\ ContainsAny(Lower(Expand(e.text, TLen(e.text))), CtaPhrases)
              /\ TLower(StrippedText(e)) \notin all_ctas
              /\ UrlJoin(p[1], e.href[1]) \in all_product_links
              /\ <<UrlJoin(p[1], e.href[1]), last.depth + 1>> \in Range(to_visit)

\* C36: the first iteration requests the seed at depth 0, whatever terms
\* its URL holds; and with max_depth = 0 the frontier never holds
\* anything but the seed and pages_scraped is 0 or 1.
C36_SeedExemptFromFilters ==
    /\ [][last.op = "call" =>
            /\ last'.op \in {"fetch_ok", "fetch_fail", "fetch_raise"}
            /\ last'.url = start_url
            /\ last'.depth = 0
            /\ gets' = (start_url :> 1)]_vars
    /\ [](max_depth = 0 =>
            /\ to_visit \in {<<>>, << <<start_url, 0>> >>}
            /\ Fetched \subseteq {start_url}
            /\ Done => TheReport.pages_scraped \in {0, 1})

\* a crawl with max_depth = 0 from a /blog URL has fetched its seed, a
\* page with links that pass the enqueue filters, and reports one page
C36_Witness ==
    /\ Done
    /\ max_depth = 0
    /\ ContainsAny(Lower(start_url), SkipTerms)
    /\ TheReport.pages_scraped = 1
    /\ visited = {start_url}
    /\ \E p \in visited_at :
          \E l \in Range(p[3]) :
              /\ Netloc(l) = domain
              /\ ~ContainsAny(Lower(l), SkipTerms)
              /\ l # start_url

\* the users a file holds
StoredUsers(file) == IF file[1] = "json" THEN file[2] ELSE <<>>

\* C37: a register_user call for a username that the file holds returns
\* the error and leaves the file as it is; a login_user call with a
\* username that the file does not hold, or with another password than
\* the stored one, returns an error and leaves the file as it is; and a
\* login_user call that succeeds returns the session_id that the user's
\* registration returned or, for a user of an earlier run, stored.
C37_AuthErrorsChangeNothing ==
    \A i \in 1..Len(auth_calls) :
        LET c == auth_calls[i]
            users == StoredUsers(c.before)
        IN  c.pc = "done" =>
              /\ (c.fn = "register_user" /\ c.username \in DOMAIN users) =>
                    /\ c.result = << [error |-> "Username already exists"] >>
                    /\ c.after = c.before
              /\ (c.fn = "login_user" /\ c.username \notin DOMAIN users) =>
                    /\ c.result = << [error |-> "User not found"] >>
                    /\ c.after = c.before
              /\ (/\ c.fn = "login_user" /\ c.username \in DOMAIN users
                  /\ users[c.username].password # c.password) =>
                    /\ c.result = << [error |-> "Invalid password"] >>
                    /\ c.after = c.before
              /\ (c.fn = "login_user" /\ "success" \in DOMAIN c.result[1]) =>
                    /\ c.username \in DOMAIN StoredUsers(auth_calls[1].before) =>
                          c.result[1].session_id =
                              StoredUsers(auth_calls[1].before)[c.username].session_id
                    /\ \A j \in 1..(i - 1) :
                          (/\ auth_calls[j].fn = "register_user"
                           /\ auth_calls[j].pc = "done"
                           /\ auth_calls[j].username = c.username
                           /\ "success" \in DOMAIN auth_calls[j].result[1]) =>
                              c.result[1].session_id =
                                  auth_calls[j].result[1].session_id

\* a user registered, a second registration of the name with another
\* password was refused, and the user logged in with the first password
C37_Witness ==
    /\ Len(auth_calls) = 3
    /\ \A i \in 1..3 : auth_calls[i].pc = "done" /\ auth_calls[i].username = "bob"
    /\ auth_calls[1].fn = "register_user"
    /\ auth_calls[2].fn = "register_user"
    /\ auth_calls[2].password # auth_calls[1].password
    /\ auth_calls[3].fn = "login_user"
    /\ "error" \in DOMAIN auth_calls[2].result[1]
    /\ auth_calls[3].result[1] =
          [success |-> TRUE, session_id |-> auth_calls[1].result[1].session_id]

\* C38: when two register_user calls for different usernames that the
\* file did not hold have run at the same time and both have returned
\* success, the file holds both usernames.
C38_ConcurrentRegistrationsPersist ==
    \A i, j \in 1..Len(auth_calls) :
        LET a == auth_calls[i]
            b == auth_calls[j]
        IN  (/\ i < j
             /\ a.fn = "register_user" /\ b.fn = "register_user"
             /\ a.username # b.username
             /\ a.pc = "done" /\ b.pc = "done"
             /\ "success" \in DOMAIN a.result[1]
             /\ "success" \in DOMAIN b.result[1])
                => {a.username, b.username} \subseteq DOMAIN StoredUsers(users_file)

\* C39: a call of the logo or the color palette endpoint that finds the
\* session without a brand name returns the error "Generate brand name
\* first" and leaves the session as it was: its histories, its fields and
\* its version.
C39_NoBrandNameNoChange ==
    \A i \in 1..Len(endpoint_calls) :
        LET c == endpoint_calls[i]
        IN  (/\ c.lookup = "session"
             /\ c.before.brand_name \in {None, <<>>}) =>
                /\ c.result = [error |-> "Generate brand name first"]
                /\ c.after = c.before

\* both endpoints were called on a session whose brand name is the empty
\* string and whose tagline is set, and refused
C39_Witness ==
    /\ Len(endpoint_calls) = 2
    /\ endpoint_calls[1].endpoint # endpoint_calls[2].endpoint
    /\ \A i \in 1..2 :
          /\ endpoint_calls[i].lookup = "session"
          /\ endpoint_calls[i].result = [error |-> "Generate brand name first"]
    /\ session = SessionWith({"tagline"})
    /\ session.brand_name = <<>>
    /\ session.tagline = Preset.tagline

=============================================================================
